---- MODULE Spec2Model ----
(***************************************************************************)
(* Craig-O-Cleaner tooling scripts as state machines.                      *)
(*                                                                         *)
(* Each script is a standalone process, so each has its own record of      *)
(* state (its locals, the files it reads and writes, its program counter)  *)
(* and its own specification:                                              *)
(*   report : scripts/generate-test-report.py            (SpecReport)      *)
(*   sync   : sync-xcode-project.py                      (SpecSync)        *)
(*   addf   : add_files_to_xcode.py                      (SpecAdd)         *)
(*   upd    : update_xcode_project.py                    (SpecUpdate)      *)
(*   term   : TerminatorEdition/Scripts/sync_xcode_project.py (SpecTerm)   *)
(*   ana    : scripts/analyze_test_results.py  (SpecAnalyze, SpecAnalyzer) *)
(*   cap    : Scripts/capture_screenshots.py             (SpecCapture)     *)
(*   shot   : Scripts/screenshot_helper.py               (SpecHelper)      *)
(* A record whose script is not the one under study stays NotRunning.      *)
(***************************************************************************)
EXTENDS Integers, Sequences, FiniteSets, TLC

VARIABLES report, sync, addf, upd, term, ana, cap, shot

vars == <<report, sync, addf, upd, term, ana, cap, shot>>

NotRunning == [pc |-> "off"]

(***************************************************************************)
(* Sequence helpers                                                        *)
(***************************************************************************)
SeqsUpTo(S, n) == UNION {[1..k -> S] : k \in 0..n}

RECURSIVE SumSeq(_)
SumSeq(s) == IF s = <<>> THEN 0 ELSE Head(s) + SumSeq(Tail(s))

CountIn(s, P(_)) == Cardinality({i \in 1..Len(s) : P(s[i])})

(***************************************************************************)
(* Text: a str is the sequence of its characters.                          *)
(***************************************************************************)
UppercaseLetters == <<"A", "B", "C", "D", "E", "F", "G", "H", "I", "J", "K", "L", "M", "N", "O", "P", "Q", "R", "S", "T", "U", "V", "W", "X", "Y", "Z">>

LowercaseLetters == <<"a", "b", "c", "d", "e", "f", "g", "h", "i", "j", "k", "l", "m", "n", "o", "p", "q", "r", "s", "t", "u", "v", "w", "x", "y", "z">>

LowerOf ==
    [c \in {UppercaseLetters[i] : i \in 1..26} |->
        LowercaseLetters[CHOOSE i \in 1..26 : UppercaseLetters[i] = c]]

LowerChar(c) == IF c \in DOMAIN LowerOf THEN LowerOf[c] ELSE c

\* str.lower()
lower(s) == [i \in DOMAIN s |-> LowerChar(s[i])]

\* pattern in text (t and p: the two values, evaluated once)
Contains(text, pattern) ==
    \E t \in {text} : \E p \in {pattern} :
        \E i \in 0..(Len(t) - Len(p)) : \A k \in 1..Len(p) : t[i + k] = p[k]

(***************************************************************************)
(* scripts/generate-test-report.py                                         *)
(***************************************************************************)

\* Bound: lines over all log files of one run.
MaxLines == 3

\* The *.log files that logs_dir.glob("*.log") yields.
LogFileNames == {"ui-tests.log", "unit-tests.log"}

\* The test methods named in the logs of a run: -[AppTests testAuth] and
\* -[AppTests testView].
ReportClassNames == {<<"A", "p", "p", "T", "e", "s", "t", "s">>}

ReportTestNames == {<<"t", "e", "s", "t", "A", "u", "t", "h">>, <<"t", "e", "s", "t", "V", "i", "e", "w">>}

\* The text captured by ([\d.]+): one that float() parses and one it rejects.
DurationTexts == {<<"0", ".", "5">>, <<"1", ".", "2", ".", "3">>}

\* A log line, by the patterns it matches and the text its groups capture.
\*   Test Case '-[AppTests testAuth]' started.
StartLines == [kind : {"started"}, class_name : ReportClassNames, name : ReportTestNames]

\*   Test Case '-[AppTests testAuth]' passed (0.5 seconds).
ResultLines ==
    [kind : {"passed", "failed"}, class_name : ReportClassNames, name : ReportTestNames,
     dur : DurationTexts]

\*   CacheView.swift:3: error: no return
\*   AppTests.swift:9: error: XCTAssertTrue failed
\*   f:1: warning: g:2: error: m       (matches ERROR_LINE and WARNING_LINE)
\*   f:1: warning: unused
\*   note
PlainLines ==
    {[kind |-> "error", file |-> <<"C", "a", "c", "h", "e", "V", "i", "e", "w", ".", "s", "w", "i", "f", "t">>, line |-> 3, message |-> <<"n", "o", " ", "r", "e", "t", "u", "r", "n">>],
     [kind |-> "assertion", file |-> <<"A", "p", "p", "T", "e", "s", "t", "s", ".", "s", "w", "i", "f", "t">>, line |-> 9, message |-> <<"X", "C", "T", "A", "s", "s", "e", "r", "t", "T", "r", "u", "e", " ", "f", "a", "i", "l", "e", "d">>],
     [kind |-> "error+warning", file |-> <<"f", ":", "1", ":", " ", "w", "a", "r", "n", "i", "n", "g", ":", " ", "g">>, line |-> 2, message |-> <<"m">>],
     [kind |-> "warning", file |-> <<"f">>, line |-> 1, message |-> <<"u", "n", "u", "s", "e", "d">>],
     [kind |-> "other", text |-> <<"n", "o", "t", "e">>]}

LogLines == StartLines \cup ResultLines \cup PlainLines

(***************************************************************************)
(* Logs whose tests and errors are named for IssueAnalyzer: names with the *)
(* words _determine_severity and CATEGORY_PATTERNS look for, alone and     *)
(* together (SpecIssues).                                                  *)
(***************************************************************************)

\* Bound: lines of the log file of one run.
MaxIssueLines == 2

\* AppTests, SecurityTests
IssueClassNames == {<<"A", "p", "p", "T", "e", "s", "t", "s">>, <<"S", "e", "c", "u", "r", "i", "t", "y", "T", "e", "s", "t", "s">>}

\* testCriticalAuth, testSecurityMinor, testImportantMinor, testAuthButton,
\* testMinorTimeout, testLaunch, testAPIData, testReview
IssueTestNames ==
    {<<"t", "e", "s", "t", "C", "r", "i", "t", "i", "c", "a", "l", "A", "u", "t", "h">>,
     <<"t", "e", "s", "t", "S", "e", "c", "u", "r", "i", "t", "y", "M", "i", "n", "o", "r">>,
     <<"t", "e", "s", "t", "I", "m", "p", "o", "r", "t", "a", "n", "t", "M", "i", "n", "o", "r">>,
     <<"t", "e", "s", "t", "A", "u", "t", "h", "B", "u", "t", "t", "o", "n">>,
     <<"t", "e", "s", "t", "M", "i", "n", "o", "r", "T", "i", "m", "e", "o", "u", "t">>,
     <<"t", "e", "s", "t", "L", "a", "u", "n", "c", "h">>,
     <<"t", "e", "s", "t", "A", "P", "I", "D", "a", "t", "a">>,
     <<"t", "e", "s", "t", "R", "e", "v", "i", "e", "w">>}

\*   Test Case '-[SecurityTests testLaunch]' failed (0.5 seconds).
\*   Test Case '-[AppTests testLaunch]' passed (0.5 seconds).
\*   CacheView.swift:3: error: no return
\*   Net.swift:7: error: Request timeout
\*   Store.swift:2: error: Database locked
\*   main.swift:1: error: bad
IssueLines ==
    [kind : {"failed"}, class_name : IssueClassNames, name : IssueTestNames,
     dur : {<<"0", ".", "5">>}]
    \cup {[kind |-> "passed", class_name |-> <<"A", "p", "p", "T", "e", "s", "t", "s">>, name |-> <<"t", "e", "s", "t", "L", "a", "u", "n", "c", "h">>,
           dur |-> <<"0", ".", "5">>],
          [kind |-> "error", file |-> <<"C", "a", "c", "h", "e", "V", "i", "e", "w", ".", "s", "w", "i", "f", "t">>, line |-> 3, message |-> <<"n", "o", " ", "r", "e", "t", "u", "r", "n">>],
          [kind |-> "error", file |-> <<"N", "e", "t", ".", "s", "w", "i", "f", "t">>, line |-> 7, message |-> <<"R", "e", "q", "u", "e", "s", "t", " ", "t", "i", "m", "e", "o", "u", "t">>],
          [kind |-> "error", file |-> <<"S", "t", "o", "r", "e", ".", "s", "w", "i", "f", "t">>, line |-> 2, message |-> <<"D", "a", "t", "a", "b", "a", "s", "e", " ", "l", "o", "c", "k", "e", "d">>],
          [kind |-> "error", file |-> <<"m", "a", "i", "n", ".", "s", "w", "i", "f", "t">>, line |-> 1, message |-> <<"b", "a", "d">>]}

TEST_CASE_START(line) == line.kind = "started"

TEST_CASE_PASSED(line) == line.kind = "passed"

TEST_CASE_FAILED(line) == line.kind = "failed"

ERROR_LINE(line) == line.kind \in {"error", "assertion", "error+warning"}

WARNING_LINE(line) == line.kind \in {"warning", "error+warning"}

\* float(text) for a text of digits and dots: at most one dot, at least one digit.
FloatParses(text) ==
    /\ Cardinality({i \in 1..Len(text) : text[i] = "."}) <= 1
    /\ \E i \in 1..Len(text) : text[i] # "."

\* "XCTAssert" in text or "failed" in text.lower()
MentionsFailure(text) ==
    Contains(text, <<"X", "C", "T", "A", "s", "s", "e", "r", "t">>) \/ Contains(lower(text), <<"f", "a", "i", "l", "e", "d">>)

\* The same test on a whole line: the words of the pattern or the captured text.
LineMentionsFailure(line) ==
    CASE line.kind = "failed" -> TRUE
      [] line.kind \in {"started", "passed"} ->
            MentionsFailure(line.class_name) \/ MentionsFailure(line.name)
      [] line.kind = "other" -> MentionsFailure(line.text)
      [] OTHER -> MentionsFailure(line.file) \/ MentionsFailure(line.message)

\* range(max(0, current_index - 10), current_index)
ContextWindow == 10

\* Optional[str] None
None == [kind |-> "None"]

\* The first line of the window before lines[current_index] that mentions a
\* failure (a line stands for its stripped text), or None.
_find_error_context(lines, current_index) ==
    LET window == {i \in 1..(current_index - 1) :
                      /\ i >= current_index - ContextWindow
                      /\ LineMentionsFailure(lines[i])}
    IN  IF window = {} THEN None
        ELSE lines[CHOOSE i \in window : \A j \in window : i <= j]

TestCase(name, class_name, status, duration, error_message) ==
    [name |-> name, class_name |-> class_name, status |-> status, duration |-> duration,
     error_message |-> error_message]

EmptyParser == [test_cases |-> <<>>, errors |-> <<>>, warnings |-> <<>>, raised |-> FALSE]

\* One iteration of the loop of parse_log_file: the patterns are tried in order
\* and the first that matches ends the iteration (continue).
ParseLine(p, lines, i) ==
    LET line == lines[i]
    IN  IF p.raised THEN p
        ELSE IF TEST_CASE_START(line) THEN p
        ELSE IF TEST_CASE_PASSED(line) THEN
            IF FloatParses(line.dur)
            THEN [p EXCEPT !.test_cases =
                     Append(@, TestCase(line.name, line.class_name, "passed", line.dur, None))]
            ELSE [p EXCEPT !.raised = TRUE]
        ELSE IF TEST_CASE_FAILED(line) THEN
            IF FloatParses(line.dur)
            THEN [p EXCEPT !.test_cases =
                     Append(@, TestCase(line.name, line.class_name, "failed", line.dur,
                                        _find_error_context(lines, i)))]
            ELSE [p EXCEPT !.raised = TRUE]
        ELSE IF ERROR_LINE(line) THEN
            [p EXCEPT !.errors =
                Append(@, [file |-> line.file, line |-> line.line, message |-> line.message])]
        ELSE IF WARNING_LINE(line) THEN
            [p EXCEPT !.warnings =
                Append(@, [file |-> line.file, line |-> line.line, message |-> line.message])]
        ELSE p

\* for i, line in enumerate(lines), from the i-th line on
RECURSIVE ParseLines(_, _, _)
ParseLines(p, lines, i) ==
    IF i > Len(lines) THEN p ELSE ParseLines(ParseLine(p, lines, i), lines, i + 1)

parse_log_file(p, lines) == ParseLines(p, lines, 1)

\* IssueAnalyzer.CATEGORY_PATTERNS, in the order of the dict.
CATEGORY_PATTERNS ==
    <<
      [category |-> "ui",
       patterns |-> <<<<"V", "i", "e", "w">>,
                      <<"B", "u", "t", "t", "o", "n">>,
                      <<"L", "a", "b", "e", "l">>,
                      <<"T", "e", "x", "t", "F", "i", "e", "l", "d">>,
                      <<"I", "m", "a", "g", "e">>,
                      <<"N", "a", "v", "i", "g", "a", "t", "i", "o", "n">>,
                      <<"S", "i", "d", "e", "b", "a", "r">>>>],
      [category |-> "performance",
       patterns |-> <<<<"s", "l", "o", "w">>,
                      <<"t", "i", "m", "e", "o", "u", "t">>,
                      <<"p", "e", "r", "f", "o", "r", "m", "a", "n", "c", "e">>,
                      <<"m", "e", "m", "o", "r", "y">>,
                      <<"c", "p", "u">>>>],
      [category |-> "security",
       patterns |-> <<<<"p", "e", "r", "m", "i", "s", "s", "i", "o", "n">>,
                      <<"a", "u", "t", "h">>,
                      <<"s", "e", "c", "u", "r", "i", "t", "y">>,
                      <<"c", "r", "e", "d", "e", "n", "t", "i", "a", "l">>,
                      <<"k", "e", "y", "c", "h", "a", "i", "n">>>>],
      [category |-> "api",
       patterns |-> <<<<"A", "P", "I">>,
                      <<"n", "e", "t", "w", "o", "r", "k">>,
                      <<"r", "e", "q", "u", "e", "s", "t">>,
                      <<"r", "e", "s", "p", "o", "n", "s", "e">>,
                      <<"e", "n", "d", "p", "o", "i", "n", "t">>>>],
      [category |-> "data",
       patterns |-> <<<<"d", "a", "t", "a">>,
                      <<"s", "t", "o", "r", "a", "g", "e">>,
                      <<"d", "a", "t", "a", "b", "a", "s", "e">>,
                      <<"c", "a", "c", "h", "e">>,
                      <<"p", "e", "r", "s", "i", "s", "t", "e", "n", "c", "e">>>>]
    >>

AGENT_MAPPING ==
    [category \in {"ui", "performance", "security", "api", "data", "test", "general"} |->
        CASE category = "ui"          -> "swiftui-expert"
          [] category = "performance" -> "performance-optimizer"
          [] category = "security"    -> "security-auditor"
          [] category = "api"         -> "api-designer"
          [] category = "test"        -> "test-generator"
          [] OTHER                    -> "code-reviewer"]

\* self.AGENT_MAPPING.get(category, "code-reviewer")
AgentMappingGet(category) ==
    IF category \in DOMAIN AGENT_MAPPING THEN AGENT_MAPPING[category] ELSE "code-reviewer"

\* The two nested loops of _categorize_issue and _categorize_error: the first
\* category, in the order of the dict, one of whose patterns, lower-cased, is in
\* one of the texts.
FirstCategory(texts) ==
    LET hits == {c \in DOMAIN CATEGORY_PATTERNS :
                    \E text \in texts : \E k \in DOMAIN CATEGORY_PATTERNS[c].patterns :
                        Contains(text, lower(CATEGORY_PATTERNS[c].patterns[k]))}
    IN  IF hits = {} THEN "general"
        ELSE CATEGORY_PATTERNS[CHOOSE c \in hits : \A h \in hits : c <= h].category

\* A _categorize_issue that looks at the name of the test only.
_categorize_issue_by_name(test_case) == FirstCategory({lower(test_case.name)})

\* _categorize_issue as a function of the class and the name of the test case,
\* over the names the logs hold.
CategoryOfTest ==
    [class_name \in ReportClassNames \cup IssueClassNames,
     name \in ReportTestNames \cup IssueTestNames |->
        FirstCategory({lower(name) \o <<" ">> \o lower(class_name)})]

_categorize_issue(test_case) == CategoryOfTest[test_case.class_name, test_case.name]

\* _categorize_error as a function of the message and the file of the error
\* record, over the error lines the logs hold.
CategoryOfError ==
    [error \in {<<line.message, line.file>> : line \in {l \in LogLines \cup IssueLines : ERROR_LINE(l)}} |->
        FirstCategory({lower(error[1]), lower(error[2])})]

_categorize_error(error) == CategoryOfError[<<error.message, error.file>>]

\* A _determine_severity that tests 'important' and 'auth' first.
_determine_severity_high_first(test_case) ==
    LET name_lower == lower(test_case.name)
    IN  IF Contains(name_lower, <<"i", "m", "p", "o", "r", "t", "a", "n", "t">>) \/ Contains(name_lower, <<"a", "u", "t", "h">>)
        THEN "high"
        ELSE IF Contains(name_lower, <<"c", "r", "i", "t", "i", "c", "a", "l">>) \/ Contains(name_lower, <<"s", "e", "c", "u", "r", "i", "t", "y">>)
        THEN "critical"
        ELSE IF Contains(name_lower, <<"m", "i", "n", "o", "r">>) THEN "low"
        ELSE "medium"

_determine_severity(test_case) ==
    LET name_lower == lower(test_case.name)
    IN  IF Contains(name_lower, <<"c", "r", "i", "t", "i", "c", "a", "l">>) \/ Contains(name_lower, <<"s", "e", "c", "u", "r", "i", "t", "y">>)
        THEN "critical"
        ELSE IF Contains(name_lower, <<"i", "m", "p", "o", "r", "t", "a", "n", "t">>) \/ Contains(name_lower, <<"a", "u", "t", "h">>)
        THEN "high"
        ELSE IF Contains(name_lower, <<"m", "i", "n", "o", "r">>) THEN "low"
        ELSE "medium"

\* Issue(...) as analyze_test_failures makes it for the test case tc.
TestIssue(tc, issue_counter) ==
    LET category == _categorize_issue(tc)
    IN  [id |-> issue_counter, severity |-> _determine_severity(tc), category |-> category,
         title |-> "Test Failure", related_tests |-> <<tc.name>>,
         agent_recommendation |-> AgentMappingGet(category)]

\* Issue(...) as analyze_errors makes it for the error record.
ErrorIssue(error, issue_counter) ==
    LET category == _categorize_error(error)
    IN  [id |-> issue_counter, severity |-> "high", category |-> category,
         title |-> "Build/Runtime Error", related_tests |-> <<>>,
         agent_recommendation |-> AgentMappingGet(category)]

\* analyze_test_failures skips every test case that did not fail.
analyze_test_failures_all(test_cases, issue_counter) ==
    [i \in 1..Len(test_cases) |-> TestIssue(test_cases[i], issue_counter + i)]

analyze_test_failures(test_cases, issue_counter) ==
    LET failed == SelectSeq(test_cases, LAMBDA tc : tc.status = "failed")
    IN  [i \in 1..Len(failed) |-> TestIssue(failed[i], issue_counter + i)]

analyze_errors(errors, issue_counter) ==
    [i \in 1..Len(errors) |-> ErrorIssue(errors[i], issue_counter + i)]

\* generate_agent_prompt: the issues of each "### @.cursor/agents/<agent>.md"
\* section, in the order of report.issues.
generate_agent_prompt(issues) ==
    LET agent(issue) == IF issue.agent_recommendation = "" THEN "code-reviewer"
                        ELSE issue.agent_recommendation
    IN  [a \in {agent(issues[i]) : i \in DOMAIN issues} |->
            SelectSeq(issues, LAMBDA issue : agent(issue) = a)]

\* TestSuite properties
total_tests(ts) == Len(ts.test_cases)

passed_tests(ts) == CountIn(ts.test_cases, LAMBDA tc : tc.status = "passed")

failed_tests(ts) == CountIn(ts.test_cases, LAMBDA tc : tc.status = "failed")

\* (a / b) * 100 as "{:.1f}" prints it, in tenths of a percent (round half to
\* even); dividing by zero raises.
Percent(a, b) ==
    IF b = 0 THEN [raises |-> "ZeroDivisionError"]
    ELSE LET q == (a * 1000) \div b
             r == (a * 1000) % b
         IN  [tenths |-> IF 2 * r > b \/ (2 * r = b /\ q % 2 = 1) THEN q + 1 ELSE q]

\* TestSuite.pass_rate
pass_rate(ts) ==
    IF total_tests(ts) = 0 THEN [tenths |-> 0] ELSE Percent(passed_tests(ts), total_tests(ts))

\* A divisor that is the number of tests itself.
total_tests_itself(n) == n

\* max(summary['total_tests'], 1)
max_total_tests_1(n) == IF n > 1 THEN n ELSE 1

\* The "Pass Rate" of generate_markdown_report and generate_summary_report.
SummaryPassRate(summary) == Percent(summary.total_passed, max_total_tests_1(summary.total_tests))

\* TestReport.to_dict()["summary"]
Summary(test_suites, issues) ==
    [total_suites |-> Len(test_suites),
     total_tests  |-> SumSeq([i \in 1..Len(test_suites) |-> total_tests(test_suites[i])]),
     total_passed |-> SumSeq([i \in 1..Len(test_suites) |-> passed_tests(test_suites[i])]),
     total_failed |-> SumSeq([i \in 1..Len(test_suites) |-> failed_tests(test_suites[i])]),
     total_issues |-> Len(issues)]

\* generate_summary_report's status line
SummaryStatus(summary) == IF summary.total_failed = 0 THEN "PASSED" ELSE "FAILED"

\* main's return value
ExitCodeFromIssues(summary) == IF summary.total_issues > 0 THEN 1 ELSE 0

ExitCode(summary) == IF summary.total_failed > 0 THEN 1 ELSE 0

\* The state at the start of main, for the log files logs.
ReportStart(logs) ==
    [pc |-> "start", logs |-> logs, missing |-> {}, dirs |-> {}, unparsed |-> LogFileNames,
     parser |-> EmptyParser, issues |-> <<>>, test_suites |-> <<>>,
     written |-> {}, agent_prompt |-> <<>>, suite_pass_rates |-> <<>>,
     pass_rate |-> [tenths |-> -1], summary_status |-> "none", exit_code |-> -1]

\* The inputs of a run: the lines of each log file, MaxLines lines in all.
ReportInit ==
    \E k \in 0..MaxLines : \E n \in 0..(MaxLines - k) :
        \E ui \in [1..k -> LogLines], unit \in [1..n -> LogLines] :
            report = ReportStart([f \in LogFileNames |-> IF f = "ui-tests.log" THEN ui ELSE unit])

\* main: args.input and args.input / "logs" are made when they are missing
\* (mkdir with parents and exist_ok).  A log file has lines only in a logs
\* directory that exists; a file of no lines is an empty or an absent file.
ReportCheckInput ==
    /\ report.pc = "start"
    /\ \E existing \in {{}, {"input"}, {"input", "logs"}} :
        /\ (\E f \in LogFileNames : report.logs[f] # <<>>) => existing = {"input", "logs"}
        /\ report' = [report EXCEPT
                !.missing = {"input", "logs"} \ existing,
                !.dirs = existing \cup {"input", "logs"},
                !.pc = "parse"]
    /\ UNCHANGED <<sync, addf, upd, term, ana, cap, shot>>

\* parse_all_logs: one file of the glob, in the order the file system yields them.
ParseLogFile ==
    /\ report.pc = "parse"
    /\ \E f \in report.unparsed :
        LET p == parse_log_file(report.parser, report.logs[f])
        IN  report' = [report EXCEPT
                !.parser = p,
                !.unparsed = @ \ {f},
                !.pc = IF p.raised THEN "crashed"
                       ELSE IF report.unparsed = {f} THEN "analyze" ELSE "parse"]
    /\ UNCHANGED <<sync, addf, upd, term, ana, cap, shot>>

\* main: issues = failures' issues, then errors' issues, numbered by one counter.
AnalyzeIssues ==
    /\ report.pc = "analyze"
    /\ LET fromTests  == analyze_test_failures(report.parser.test_cases, 0)
           fromErrors == analyze_errors(report.parser.errors, Len(fromTests))
       IN  report' = [report EXCEPT !.issues = fromTests \o fromErrors, !.pc = "report"]
    /\ UNCHANGED <<sync, addf, upd, term, ana, cap, shot>>

\* main: the report holds the one suite only when some test case was parsed.
CreateReport ==
    /\ report.pc = "report"
    /\ report' = [report EXCEPT
            !.test_suites = IF report.parser.test_cases # <<>>
                            THEN <<[test_cases |-> report.parser.test_cases]>>
                            ELSE <<>>,
            !.pc = "generate"]
    /\ UNCHANGED <<sync, addf, upd, term, ana, cap, shot>>

\* ReportGenerator(args.output) makes the output directory; generate_all_reports
\* writes the JSON report (with each suite's pass_rate), the Markdown report, the
\* agent prompt and the summary, in this order; an exception ends the run.
GenerateAllReports ==
    /\ report.pc = "generate"
    /\ LET summary == Summary(report.test_suites, report.issues)
           rate == SummaryPassRate(summary)
       IN  report' =
               IF "raises" \in DOMAIN rate
               THEN [report EXCEPT
                        !.dirs = @ \cup {"output"},
                        !.written = {"json"},
                        !.suite_pass_rates =
                            [i \in DOMAIN report.test_suites |-> pass_rate(report.test_suites[i])],
                        !.pc = "crashed"]
               ELSE [report EXCEPT
                        !.dirs = @ \cup {"output"},
                        !.written = {"json", "markdown", "agent_prompt", "summary"},
                        !.suite_pass_rates =
                            [i \in DOMAIN report.test_suites |-> pass_rate(report.test_suites[i])],
                        !.pass_rate = rate,
                        !.agent_prompt = generate_agent_prompt(report.issues),
                        !.summary_status = SummaryStatus(summary),
                        !.pc = "return"]
    /\ UNCHANGED <<sync, addf, upd, term, ana, cap, shot>>

ReportReturn ==
    /\ report.pc = "return"
    /\ report' = [report EXCEPT
            !.exit_code = ExitCode(Summary(report.test_suites, report.issues)),
            !.pc = "done"]
    /\ UNCHANGED <<sync, addf, upd, term, ana, cap, shot>>

ReportNext ==
    ReportCheckInput \/ ParseLogFile \/ AnalyzeIssues \/ CreateReport \/ GenerateAllReports \/ ReportReturn

InitReport == ReportInit /\ sync = NotRunning /\ addf = NotRunning /\ upd = NotRunning /\ term = NotRunning
    /\ ana = NotRunning /\ cap = NotRunning /\ shot = NotRunning

SpecReport == InitReport /\ [][ReportNext]_vars

\* The inputs of a run: one log file of up to MaxIssueLines lines.
IssuesInit ==
    \E k \in 0..MaxIssueLines : \E ui \in [1..k -> IssueLines] :
        report = ReportStart([f \in LogFileNames |-> IF f = "ui-tests.log" THEN ui ELSE <<>>])

InitIssues == IssuesInit /\ sync = NotRunning /\ addf = NotRunning /\ upd = NotRunning /\ term = NotRunning
    /\ ana = NotRunning /\ cap = NotRunning /\ shot = NotRunning

SpecIssues == InitIssues /\ [][ReportNext]_vars

\* Lines of the input logs, over all files, that satisfy P.
LinesMatching(logs, P(_)) ==
    Cardinality({x \in UNION {{<<f, i>> : i \in 1..Len(logs[f])} : f \in LogFileNames} :
                    P(logs[x[1]][x[2]])})

ReportSummary == Summary(report.test_suites, report.issues)

\* C1: main returns exit code 1 if and only if at least one parsed test case has
\* status FAILED and 0 otherwise; file:line error lines and warning lines never
\* change the exit code (it is decided by the 'failed' result lines of the logs
\* alone); the summary report's status line reads PASSED exactly when the exit
\* code is 0.
C1_ExitCodeIffFailed ==
    report.pc = "done" =>
        /\ report.exit_code \in {0, 1}
        /\ (report.exit_code = 1) <=>
               (\E i \in DOMAIN report.parser.test_cases :
                    report.parser.test_cases[i].status = "failed")
        /\ (report.exit_code = 1) <=> (LinesMatching(report.logs, TEST_CASE_FAILED) > 0)
        /\ (report.summary_status = "PASSED") <=> (report.exit_code = 0)
        /\ "summary" \in report.written

\* A run that parsed a passed test, an error line and a warning line and returned 0.
C1_Witness ==
    /\ report.pc = "done"
    /\ report.exit_code = 0
    /\ report.parser.test_cases # <<>>
    /\ report.parser.errors # <<>>
    /\ report.parser.warnings # <<>>

\* C2: for every set of input logs the report summary satisfies
\* total_tests = total_passed + total_failed, total_failed is the number of
\* 'failed' result lines parsed, and total_issues is the number of failed test
\* cases plus the number of file:line error records parsed.
C2_SummaryCounts ==
    report.pc = "done" =>
        /\ ReportSummary.total_tests = ReportSummary.total_passed + ReportSummary.total_failed
        /\ ReportSummary.total_failed = LinesMatching(report.logs, TEST_CASE_FAILED)
        /\ ReportSummary.total_issues =
               CountIn(report.parser.test_cases, LAMBDA tc : tc.status = "failed")
               + Len(report.parser.errors)

\* A run with a passed test, a failed test and an error record.
C2_Witness ==
    /\ report.pc = "done"
    /\ ReportSummary.total_passed = 1
    /\ ReportSummary.total_failed = 1
    /\ Len(report.parser.errors) = 1
    /\ ReportSummary.total_issues = 2

\* parse_all_logs has returned.
ReportParsed == report.pc \in {"analyze", "report", "generate", "return", "done"}

\* The test case records of the test method named on a line.
RecordsOf(line) ==
    {k \in DOMAIN report.parser.test_cases :
        /\ report.parser.test_cases[k].class_name = line.class_name
        /\ report.parser.test_cases[k].name = line.name}

\* C17: parse_log_file turns each log line into at most one record, trying in
\* order 'started' (no record), 'passed', 'failed', file:line error, file:line
\* warning; after parse_all_logs the number of test case records equals the
\* number of 'passed' result lines plus the number of 'failed' result lines
\* over all *.log files, so every test that was started is counted exactly
\* once as passed or failed.
C17_StartedCountedOnce ==
    ReportParsed =>
        /\ Len(report.parser.test_cases) + Len(report.parser.errors)
               + Len(report.parser.warnings) <= LinesMatching(report.logs, LAMBDA line : TRUE)
        /\ Len(report.parser.test_cases) =
               LinesMatching(report.logs, TEST_CASE_PASSED)
               + LinesMatching(report.logs, TEST_CASE_FAILED)
        /\ \A f \in LogFileNames : \A i \in DOMAIN report.logs[f] :
               TEST_CASE_START(report.logs[f][i]) =>
                   Cardinality(RecordsOf(report.logs[f][i])) = 1

\* The 'started' line of the test named on lines[i] that most recently precedes
\* it, 0 when there is none.
OwnStart(lines, i) ==
    LET starts == {j \in 1..(i - 1) :
                      /\ TEST_CASE_START(lines[j])
                      /\ lines[j].class_name = lines[i].class_name
                      /\ lines[j].name = lines[i].name}
    IN  IF starts = {} THEN 0 ELSE CHOOSE j \in starts : \A k \in starts : k <= j

\* The lines logged for the test whose 'failed' line is lines[i]: after its own
\* 'started' line, among the ContextWindow lines before lines[i].
OwnContext(lines, i) ==
    {j \in 1..(i - 1) :
        /\ j >= i - ContextWindow
        /\ OwnStart(lines, i) # 0
        /\ j > OwnStart(lines, i)}

\* C18: the error_message attached to a failed test case is either None or the
\* stripped text of a line among the at most 10 lines immediately preceding that
\* test's 'failed' line, and that line was logged for the same test (after its
\* own 'started' line), never a line that belongs to an earlier test case.
C18_ErrorContextOwned ==
    ReportParsed =>
        \A k \in DOMAIN report.parser.test_cases :
            LET tc == report.parser.test_cases[k]
            IN  tc.status = "failed" =>
                    \/ tc.error_message = None
                    \/ \E f \in LogFileNames : \E i \in DOMAIN report.logs[f] :
                           /\ TEST_CASE_FAILED(report.logs[f][i])
                           /\ report.logs[f][i].class_name = tc.class_name
                           /\ report.logs[f][i].name = tc.name
                           /\ \E j \in OwnContext(report.logs[f], i) :
                                  tc.error_message = report.logs[f][j]

\* main has made the issues.
IssuesMade == report.pc \in {"report", "generate", "return", "done"}

\* The test cases analyze_test_failures makes issues of, in order.
FailedCases == SelectSeq(report.parser.test_cases, LAMBDA tc : tc.status = "failed")

\* C19: _determine_severity is a total function of the lower-cased test name
\* with strict precedence: CRITICAL if the name contains 'critical' or
\* 'security'; otherwise HIGH if it contains 'important' or 'auth'; otherwise
\* LOW if it contains 'minor'; otherwise MEDIUM; issues created from error
\* records are always HIGH.
C19_SeverityPrecedence ==
    IssuesMade =>
        /\ Len(report.issues) = Len(FailedCases) + Len(report.parser.errors)
        /\ \A i \in DOMAIN FailedCases :
               LET name_lower == lower(FailedCases[i].name)
                   critical == Contains(name_lower, <<"c", "r", "i", "t", "i", "c", "a", "l">>)
                                   \/ Contains(name_lower, <<"s", "e", "c", "u", "r", "i", "t", "y">>)
                   high == Contains(name_lower, <<"i", "m", "p", "o", "r", "t", "a", "n", "t">>)
                               \/ Contains(name_lower, <<"a", "u", "t", "h">>)
                   low == Contains(name_lower, <<"m", "i", "n", "o", "r">>)
               IN  report.issues[i].severity =
                       IF critical THEN "critical"
                       ELSE IF high THEN "high"
                       ELSE IF low THEN "low"
                       ELSE "medium"
        /\ \A j \in DOMAIN report.parser.errors :
               report.issues[Len(FailedCases) + j].severity = "high"

\* A failed test whose name holds both 'critical' and 'auth' made a CRITICAL
\* issue, and an error record made a HIGH one.
C19_Witness ==
    /\ IssuesMade
    /\ Len(FailedCases) = 1
    /\ Contains(lower(FailedCases[1].name), <<"c", "r", "i", "t", "i", "c", "a", "l">>)
    /\ Contains(lower(FailedCases[1].name), <<"a", "u", "t", "h">>)
    /\ report.issues[1].severity = "critical"
    /\ Len(report.parser.errors) = 1
    /\ report.issues[2].severity = "high"

\* Some pattern of the c-th category occurs case-insensitively in a text.
Occurs(c, texts) ==
    \E text \in {lower(t) : t \in texts} : \E k \in DOMAIN CATEGORY_PATTERNS[c].patterns :
        Contains(text, lower(CATEGORY_PATTERNS[c].patterns[k]))

\* The first category from the c-th on that occurs, 'general' if none does.
RECURSIVE CategoryFrom(_, _)
CategoryFrom(c, texts) ==
    IF c > Len(CATEGORY_PATTERNS) THEN "general"
    ELSE IF Occurs(c, texts) THEN CATEGORY_PATTERNS[c].category
    ELSE CategoryFrom(c + 1, texts)

\* The sections of the agent prompt that list the issue.
SectionsOf(issue) ==
    {a \in DOMAIN report.agent_prompt :
        \E k \in DOMAIN report.agent_prompt[a] : report.agent_prompt[a][k].id = issue.id}

\* C20: every issue's category is the first category of CATEGORY_PATTERNS (in
\* the order ui, performance, security, api, data) having a pattern that occurs
\* case-insensitively in the examined text, or 'general' if none does, and the
\* issue's agent_recommendation always equals AGENT_MAPPING[category];
\* consequently the agent prompt routes every issue to exactly one agent
\* section.
C20_CategoryAndAgent ==
    IssuesMade =>
        /\ [c \in DOMAIN CATEGORY_PATTERNS |-> CATEGORY_PATTERNS[c].category]
               = <<"ui", "performance", "security", "api", "data">>
        /\ \A i \in DOMAIN FailedCases :
               report.issues[i].category =
                   CategoryFrom(1, {FailedCases[i].name \o <<" ">> \o FailedCases[i].class_name})
        /\ \A j \in DOMAIN report.parser.errors :
               report.issues[Len(FailedCases) + j].category =
                   CategoryFrom(1, {report.parser.errors[j].message,
                                    report.parser.errors[j].file})
        /\ \A i \in DOMAIN report.issues :
               /\ report.issues[i].category \in DOMAIN AGENT_MAPPING
               /\ report.issues[i].agent_recommendation =
                      AGENT_MAPPING[report.issues[i].category]
        /\ report.pc \in {"return", "done"} =>
               \A i \in DOMAIN report.issues :
                   /\ Cardinality(SectionsOf(report.issues[i])) = 1
                   /\ \A a \in SectionsOf(report.issues[i]) :
                          /\ a = report.issues[i].agent_recommendation
                          /\ Cardinality({k \in DOMAIN report.agent_prompt[a] :
                                 report.agent_prompt[a][k].id = report.issues[i].id}) = 1

\* A failed test whose name holds a ui pattern and a security pattern made a ui
\* issue, a test of a class with a security pattern a security issue, and the
\* prompt has a section for each.
C20_Witness ==
    /\ report.pc = "done"
    /\ Len(FailedCases) = 2
    /\ Contains(lower(FailedCases[1].name), <<"b", "u", "t", "t", "o", "n">>)
    /\ Contains(lower(FailedCases[1].name), <<"a", "u", "t", "h">>)
    /\ report.issues[1].category = "ui"
    /\ ~Contains(lower(FailedCases[2].name), <<"s", "e", "c", "u", "r", "i", "t", "y">>)
    /\ Contains(lower(FailedCases[2].class_name), <<"s", "e", "c", "u", "r", "i", "t", "y">>)
    /\ report.issues[2].category = "security"
    /\ DOMAIN report.agent_prompt = {"swiftui-expert", "security-auditor"}

\* No log file has a line: the logs directory was missing or holds no logs.
NoLogs == \A f \in LogFileNames : report.logs[f] = <<>>

\* C21: when the input directory is missing or contains no log files, main does
\* not fail: it creates the directories, never divides by zero when computing a
\* pass rate (pass rate is 0 for zero tests), writes all four reports with zero
\* tests and zero issues, and returns 0.
C21_EmptyInputReportsZero ==
    NoLogs =>
        /\ report.pc # "crashed"
        /\ report.pc # "start" => {"input", "logs"} \subseteq report.dirs
        /\ report.pc \in {"return", "done"} =>
               /\ report.dirs = {"input", "logs", "output"}
               /\ report.written = {"json", "markdown", "agent_prompt", "summary"}
               /\ report.pass_rate = [tenths |-> 0]
               /\ \A i \in DOMAIN report.suite_pass_rates :
                      "raises" \notin DOMAIN report.suite_pass_rates[i]
               /\ ReportSummary.total_tests = 0
               /\ ReportSummary.total_issues = 0
        /\ report.pc = "done" => report.exit_code = 0

\* A run that found the input directory missing and returned.
C21_Witness ==
    /\ NoLogs
    /\ report.pc = "done"
    /\ report.missing = {"input", "logs"}
    /\ report.written = {"json", "markdown", "agent_prompt", "summary"}
    /\ report.exit_code = 0

(***************************************************************************)
(* Project-file text (project.pbxproj) as a sequence of tokens: the        *)
(* markers the scripts' patterns look for, and the entries between them.   *)
(* Shared by add_files_to_xcode.py and update_xcode_project.py.            *)
(***************************************************************************)

\* A marker or a piece of other text.
Tok(t) == [t |-> t, id |-> <<>>, name |-> "", ref |-> <<>>]

\* An entry line: a PBXBuildFile ("build"), a PBXFileReference ("fileref"), a
\* Sources-phase line ("src") or a group child ("child").
Entry(t, id, name, ref) == [t |-> t, id |-> id, name |-> name, ref |-> ref]

\* An id already in the file: the i-th entry of the k-th section of kind sec.
OldId(sec, k, i) == <<"old", sec, k, i>>

\* uuid.uuid4().hex.upper()[:24]: the n-th id drawn in a run.  Ids drawn are
\* distinct from each other and from every id of the file.
generate_uuid(n) == <<"uuid", n>>

Min(S) == CHOOSE x \in S : \A y \in S : x <= y

NoMatch == [found |-> FALSE, start |-> 0, stop |-> 0]

\* re.search of (begin)(.*?)(end) with re.DOTALL: the leftmost begin that has an
\* end after it, up to the nearest such end.
Search(content, begin, end) ==
    LET starts == {i \in DOMAIN content :
                      /\ content[i].t = begin
                      /\ \E j \in (i + 1)..Len(content) : content[j].t = end}
    IN  IF starts = {} THEN NoMatch
        ELSE LET i == Min(starts)
             IN  [found |-> TRUE, start |-> i,
                  stop |-> Min({j \in (i + 1)..Len(content) : content[j].t = end})]

Group0(content, m) == SubSeq(content, m.start, m.stop)

Group1(content, m) == <<content[m.start]>>

Group2(content, m) == SubSeq(content, m.start + 1, m.stop - 1)

Group3(content, m) == <<content[m.stop]>>

\* str.replace(old, new): every non-overlapping occurrence, left to right.
RECURSIVE Replace(_, _, _)
Replace(s, old, new) ==
    IF Len(s) < Len(old) THEN s
    ELSE IF SubSeq(s, 1, Len(old)) = old
         THEN new \o Replace(SubSeq(s, Len(old) + 1, Len(s)), old, new)
         ELSE <<Head(s)>> \o Replace(Tail(s), old, new)

(***************************************************************************)
(* add_files_to_xcode.py                                                   *)
(***************************************************************************)

\* Bound: entries already in a section of the input project file.
MaxOld == 2

\* Filenames a caller may request (the script itself requests PaywallView.swift).
AddFileNames == {"PaywallView.swift", "SettingsView.swift"}

\* The lists of distinct filenames.
AddFileLists == {l \in SeqsUpTo(AddFileNames, Cardinality(AddFileNames)) :
                    \A i, j \in DOMAIN l : i # j => l[i] # l[j]}

OldEntries(t, sec, k, n) ==
    [i \in 1..n |-> Entry(t, OldId(sec, k, i), "Old.swift", IF t = "build" THEN OldId("ref", 1, i) ELSE <<>>)]

\* A section of the input file: absent (n = -1) or holding n entries.
BuildSectionText(n) ==
    IF n < 0 THEN <<>>
    ELSE <<Tok("BeginPBXBuildFile")>> \o OldEntries("build", "build", 1, n) \o <<Tok("EndPBXBuildFile")>>

FileRefSectionText(n) ==
    IF n < 0 THEN <<>>
    ELSE <<Tok("BeginPBXFileReference")>> \o OldEntries("fileref", "ref", 1, n)
             \o <<Tok("EndPBXFileReference")>>

CoreGroupText(n) ==
    IF n < 0 THEN <<>>
    ELSE <<Tok("CoreChildren(")>> \o OldEntries("child", "ref", 1, n) \o <<Tok(");")>>

\* The Sources build phases of the targets; the k-th holds phases[k] entries.
RECURSIVE SourcesPhasesText(_, _)
SourcesPhasesText(phases, k) ==
    IF k > Len(phases) THEN <<>>
    ELSE <<Tok("SourcesFiles(")>> \o OldEntries("src", "phase", k, phases[k]) \o <<Tok(");")>>
           \o SourcesPhasesText(phases, k + 1)

AddProjectFile(b, r, c, ph) ==
    <<Tok("other")>> \o BuildSectionText(b) \o FileRefSectionText(r) \o CoreGroupText(c)
        \o SourcesPhasesText(ph, 1) \o <<Tok("other")>>

AddStart(f, l) ==
    [pc |-> "read", file |-> f, original |-> f, files_to_add |-> l,
     content |-> <<>>, file_refs |-> <<>>, build_refs |-> <<>>,
     build_file_section |-> NoMatch, file_ref_section |-> NoMatch,
     sources_phase |-> NoMatch, updated_content |-> <<>>,
     result |-> "none", writes |-> 0, exit_code |-> -1]

AddInit ==
    \E b \in -1..MaxOld, r \in -1..MaxOld, c \in -1..1, np \in 0..2 :
        \E ph \in [1..np -> 0..MaxOld], l \in AddFileLists :
            addf = AddStart(AddProjectFile(b, r, c, ph), l)

\* with open(project_path, 'r') as f: content = f.read()
AddRead ==
    /\ addf.pc = "read"
    /\ addf' = [addf EXCEPT !.content = addf.file, !.pc = "uuids"]
    /\ UNCHANGED <<report, sync, upd, term, ana, cap, shot>>

\* for filename in files_to_add: file_refs[filename], build_refs[filename]
AddGenerateUuids ==
    /\ addf.pc = "uuids"
    /\ addf' = [addf EXCEPT
            !.file_refs  = [i \in DOMAIN addf.files_to_add |-> generate_uuid(2 * i - 1)],
            !.build_refs = [i \in DOMAIN addf.files_to_add |-> generate_uuid(2 * i)],
            !.pc = "search"]
    /\ UNCHANGED <<report, sync, upd, term, ana, cap, shot>>

\* The three early returns: each section must have been found.
SectionsFoundButSources(b, r, s) == b.found /\ r.found

SectionsFound(b, r, s) == b.found /\ r.found /\ s.found

AddSearch ==
    /\ addf.pc = "search"
    /\ LET b == Search(addf.content, "BeginPBXBuildFile", "EndPBXBuildFile")
           r == Search(addf.content, "BeginPBXFileReference", "EndPBXFileReference")
           s == Search(addf.content, "SourcesFiles(", ");")
       IN  addf' = [addf EXCEPT
               !.build_file_section = b, !.file_ref_section = r, !.sources_phase = s,
               !.result = IF SectionsFound(b, r, s) THEN "none" ELSE "False",
               !.pc = IF SectionsFound(b, r, s) THEN "insert" ELSE "exit"]
    /\ UNCHANGED <<report, sync, upd, term, ana, cap, shot>>

new_build_entries(files_to_add, file_refs, build_refs) ==
    [i \in DOMAIN files_to_add |-> Entry("build", build_refs[i], files_to_add[i], file_refs[i])]

new_file_entries(files_to_add, file_refs) ==
    [i \in DOMAIN files_to_add |-> Entry("fileref", file_refs[i], files_to_add[i], <<>>)]

new_source_refs(files_to_add, build_refs) ==
    [i \in DOMAIN files_to_add |-> Entry("src", build_refs[i], files_to_add[i], <<>>)]

new_group_refs(files_to_add, file_refs) ==
    [i \in DOMAIN files_to_add |-> Entry("child", file_refs[i], files_to_add[i], <<>>)]

\* group(1) + new entries + group(2) + group(3): the new entries go first.
SpliceAfterOld(content, m, new) ==
    Group1(content, m) \o Group2(content, m) \o new \o Group3(content, m)

Splice(content, m, new) ==
    Group1(content, m) \o new \o Group2(content, m) \o Group3(content, m)

\* updated.replace(m.group(0), spliced); m was found in content.
ReplaceMatch(updated, content, m, new) ==
    IF m.found THEN Replace(updated, Group0(content, m), Splice(content, m, new)) ELSE updated

\* The three replace calls, then the Core group (searched in the updated text).
AddInsert ==
    /\ addf.pc = "insert"
    /\ LET a  == addf
           u1 == ReplaceMatch(a.content, a.content, a.build_file_section,
                              new_build_entries(a.files_to_add, a.file_refs, a.build_refs))
           u2 == ReplaceMatch(u1, a.content, a.file_ref_section,
                              new_file_entries(a.files_to_add, a.file_refs))
           u3 == ReplaceMatch(u2, a.content, a.sources_phase,
                              new_source_refs(a.files_to_add, a.build_refs))
           core_group == Search(u3, "CoreChildren(", ");")
           u4 == ReplaceMatch(u3, u3, core_group, new_group_refs(a.files_to_add, a.file_refs))
       IN  addf' = [addf EXCEPT !.updated_content = u4, !.pc = "write"]
    /\ UNCHANGED <<report, sync, upd, term, ana, cap, shot>>

\* with open(project_path, 'w') as f: f.write(updated_content); return True
AddWrite ==
    /\ addf.pc = "write"
    /\ addf' = [addf EXCEPT !.file = addf.updated_content, !.writes = @ + 1,
                            !.result = "True", !.pc = "exit"]
    /\ UNCHANGED <<report, sync, upd, term, ana, cap, shot>>

\* __main__: sys.exit(0) if add_files_to_project(...) else sys.exit(1)
AddExit ==
    /\ addf.pc = "exit"
    /\ addf' = [addf EXCEPT !.exit_code = IF addf.result = "True" THEN 0 ELSE 1, !.pc = "done"]
    /\ UNCHANGED <<report, sync, upd, term, ana, cap, shot>>

AddNext == AddRead \/ AddGenerateUuids \/ AddSearch \/ AddInsert \/ AddWrite \/ AddExit

InitAdd == AddInit /\ report = NotRunning /\ sync = NotRunning /\ upd = NotRunning /\ term = NotRunning
    /\ ana = NotRunning /\ cap = NotRunning /\ shot = NotRunning

SpecAdd == InitAdd /\ [][AddNext]_vars

IsNewId(id) == id # <<>> /\ id[1] = "uuid"

AddBuildSection(text) == Search(text, "BeginPBXBuildFile", "EndPBXBuildFile")

AddFileRefSection(text) == Search(text, "BeginPBXFileReference", "EndPBXFileReference")

AddSourcesPhase(text) == Search(text, "SourcesFiles(", ");")

\* C4: if the PBXBuildFile section, the PBXFileReference section or the Sources
\* build phase cannot be found in the project file, add_files_to_project returns
\* False without writing: the project file is unchanged at every step of the run,
\* and the script exits with status 1.
C4_MissingSectionLeavesFile ==
    (~AddBuildSection(addf.original).found \/ ~AddFileRefSection(addf.original).found
        \/ ~AddSourcesPhase(addf.original).found) =>
        /\ addf.file = addf.original
        /\ addf.writes = 0
        /\ addf.result # "True"
        /\ addf.pc = "done" => (addf.result = "False" /\ addf.exit_code = 1)

\* A finished run on a file that has both sections but no Sources build phase.
C4_Witness ==
    /\ addf.pc = "done"
    /\ AddBuildSection(addf.original).found
    /\ AddFileRefSection(addf.original).found
    /\ ~AddSourcesPhase(addf.original).found
    /\ addf.files_to_add # <<>>
    /\ addf.exit_code = 1

\* The body of the section m of text.
SectionBody(text, m) == IF m.found THEN Group2(text, m) ELSE <<>>

\* body = n new entries, then exactly the entries of before.
NewThenOld(body, before, n) ==
    /\ Len(body) = n + Len(before)
    /\ \A k \in 1..n : IsNewId(body[k].id)
    /\ SubSeq(body, n + 1, Len(body)) = before

\* C5: when add_files_to_project returns True, the written project file holds, for
\* each requested filename, exactly one new PBXFileReference entry, exactly one
\* new PBXBuildFile entry whose fileRef is that file's reference id, and a new
\* entry of the Sources phase naming that build-file id; every entry that was in
\* those sections before the call is still there, in the same order, after the
\* new entries (and nothing else of the file is lost or reordered).
C5_EntriesAddedOldKept ==
    (addf.pc = "done" /\ addf.result = "True") =>
        LET out == addf.file
            in  == addf.original
            n   == Len(addf.files_to_add)
            bodyB == SectionBody(out, AddBuildSection(out))
            bodyR == SectionBody(out, AddFileRefSection(out))
            bodyS == SectionBody(out, AddSourcesPhase(out))
        IN  /\ \A i \in 1..n :
                  LET refs   == {k \in DOMAIN out : out[k].t = "fileref" /\ IsNewId(out[k].id)
                                                     /\ out[k].name = addf.files_to_add[i]}
                      builds == {k \in DOMAIN out : out[k].t = "build" /\ IsNewId(out[k].id)
                                                     /\ out[k].name = addf.files_to_add[i]}
                  IN  /\ Cardinality(refs) = 1
                      /\ Cardinality(builds) = 1
                      /\ \A r \in refs, b \in builds :
                            /\ out[b].ref = out[r].id
                            /\ \E k \in DOMAIN bodyR : bodyR[k] = out[r]
                            /\ \E k \in DOMAIN bodyB : bodyB[k] = out[b]
                            /\ Cardinality({k \in DOMAIN bodyS :
                                   bodyS[k].t = "src" /\ bodyS[k].id = out[b].id}) = 1
            /\ NewThenOld(bodyB, SectionBody(in, AddBuildSection(in)), n)
            /\ NewThenOld(bodyR, SectionBody(in, AddFileRefSection(in)), n)
            /\ NewThenOld(bodyS, SectionBody(in, AddSourcesPhase(in)), n)
            /\ SelectSeq(out, LAMBDA tok : ~IsNewId(tok.id)) = in

\* Two files added to a project whose three sections already held two entries each.
C5_Witness ==
    /\ addf.pc = "done"
    /\ addf.result = "True"
    /\ Len(addf.files_to_add) = 2
    /\ Len(SectionBody(addf.original, AddBuildSection(addf.original))) = 2
    /\ Len(SectionBody(addf.original, AddFileRefSection(addf.original))) = 2
    /\ Len(SectionBody(addf.original, AddSourcesPhase(addf.original))) = 2
    /\ addf.file # addf.original

(***************************************************************************)
(* update_xcode_project.py                                                 *)
(***************************************************************************)

\* new_files: (directory, name) of each file; the path is directory/name.
new_files ==
    << [dir |-> "Services", name |-> "BrowserAutomationService.swift"],
       [dir |-> "Services", name |-> "MemoryOptimizerService.swift"],
       [dir |-> "Services", name |-> "PermissionsService.swift"],
       [dir |-> "Services", name |-> "SystemMetricsService.swift"],
       [dir |-> "Views", name |-> "BrowserTabsView.swift"],
       [dir |-> "Views", name |-> "DashboardView.swift"],
       [dir |-> "Views", name |-> "EnhancedMenuBarView.swift"],
       [dir |-> "Views", name |-> "MainAppView.swift"],
       [dir |-> "Views", name |-> "MemoryCleanupView.swift"],
       [dir |-> "Views", name |-> "PermissionsView.swift"] >>

\* An entry name with a ")" in it, which [^)]+ cannot cross.
ParenName == "Copy (1).swift"

\* The Sources build phase of the input: absent (-2), the phase of another
\* target id (-1), or the phase 72E50CC81E7DFE8C4F4A01AD with n old entries, the
\* last of which is named ParenName when paren is set.
UpdSourcesText(n, paren) ==
    IF n = -2 THEN <<>>
    ELSE IF n = -1 THEN <<Tok("SourcesOtherFiles("), Tok(");")>>
    ELSE <<Tok("Sources72E5Files(")>>
            \o [i \in 1..n |-> Entry("src", OldId("phase", 1, i),
                                     IF paren /\ i = n THEN ParenName ELSE "Old.swift", <<>>)]
            \o <<Tok(");")>>

\* The Craig-O-Clean group AAA8B2312C2FDE28DD3FAF8F: absent (-1) or with n children.
UpdMainGroupText(n) ==
    IF n < 0 THEN <<>>
    ELSE <<Tok("GroupAAA8Children(")>> \o OldEntries("child", "ref", 1, n) \o <<Tok(");")>>

UpdSettingsText(present) ==
    IF present
    THEN <<Tok("MACOSX_DEPLOYMENT_TARGET = 13.0;"), Tok("ENABLE_APP_SANDBOX = YES;"),
           Tok("PRODUCT_NAME = Craig-O-Clean;"), Tok("INFOPLIST_KEY_CFBundleDisplayName = old;")>>
    ELSE <<>>

UpdProjectFile(b, r, g, ge, sn, paren, st) ==
    <<Tok("other")>>
      \o (IF b THEN <<Tok("BeginPBXBuildFile"), Tok("EndPBXBuildFile")>> ELSE <<>>)
      \o (IF r THEN <<Tok("BeginPBXFileReference"), Tok("EndPBXFileReference")>> ELSE <<>>)
      \o UpdMainGroupText(g)
      \o (IF ge THEN <<Tok("EndPBXGroup")>> ELSE <<>>)
      \o UpdSourcesText(sn, paren)
      \o UpdSettingsText(st)

UpdStart(f) ==
    [pc |-> "read", file |-> f, original |-> f, content |-> <<>>,
     file_refs |-> <<>>, build_files |-> <<>>,
     services_group_id |-> <<>>, views_group_id |-> <<>>, printed |-> <<>>]

UpdInit ==
    \E b \in BOOLEAN, r \in BOOLEAN, g \in -1..1, ge \in BOOLEAN,
       sn \in -2..MaxOld, paren \in BOOLEAN, st \in BOOLEAN :
        /\ paren => sn >= 1
        /\ upd = UpdStart(UpdProjectFile(b, r, g, ge, sn, paren, st))

\* with open(project_path, 'r') as f: content = f.read(); then the uuids of the files
UpdRead ==
    /\ upd.pc = "read"
    /\ upd' = [upd EXCEPT
            !.content = upd.file,
            !.file_refs   = [i \in DOMAIN new_files |-> generate_uuid(2 * i - 1)],
            !.build_files = [i \in DOMAIN new_files |-> generate_uuid(2 * i)],
            !.pc = "file_refs"]
    /\ UNCHANGED <<report, sync, addf, term, ana, cap, shot>>

\* The PBXFileReference lines; the path (dir/name) is kept in ref.
new_file_refs(file_refs) ==
    [i \in DOMAIN new_files |->
        Entry("fileref", file_refs[i], new_files[i].name, <<new_files[i].dir, new_files[i].name>>)]

\* content.replace(file_ref_section, new_file_refs + file_ref_section)
UpdAddFileRefs ==
    /\ upd.pc = "file_refs"
    /\ upd' = [upd EXCEPT
            !.content = Replace(@, <<Tok("EndPBXFileReference")>>,
                                new_file_refs(upd.file_refs) \o <<Tok("EndPBXFileReference")>>),
            !.pc = "build_files"]
    /\ UNCHANGED <<report, sync, addf, term, ana, cap, shot>>

new_build_files(file_refs, build_files) ==
    [i \in DOMAIN new_files |-> Entry("build", build_files[i], new_files[i].name, file_refs[i])]

\* content.replace(build_file_section, new_build_files + build_file_section)
UpdAddBuildFiles ==
    /\ upd.pc = "build_files"
    /\ upd' = [upd EXCEPT
            !.content = Replace(@, <<Tok("EndPBXBuildFile")>>,
                                new_build_files(upd.file_refs, upd.build_files)
                                    \o <<Tok("EndPBXBuildFile")>>),
            !.pc = "sources"]
    /\ UNCHANGED <<report, sync, addf, term, ana, cap, shot>>

\* A match of (header)([^)]+)(\);): from the header to the first ")" after it,
\* which must be the one of ");".  The list text is never empty (it holds at
\* least the line break and the indentation).
SearchNoParen(content, header) ==
    LET starts == {i \in DOMAIN content : content[i].t = header}
        stops(i) == {j \in (i + 1)..Len(content) :
                        content[j].t = ");" \/ content[j].name = ParenName}
        ok == {i \in starts : stops(i) # {} /\ content[Min(stops(i))].t = ");"}
    IN  IF ok = {} THEN NoMatch
        ELSE [found |-> TRUE, start |-> Min(ok), stop |-> Min(stops(Min(ok)))]

\* add_sources: prefix + existing + the new lines + suffix
add_sources(content, m, build_files) ==
    Group1(content, m) \o Group2(content, m)
        \o [i \in DOMAIN new_files |-> Entry("src", build_files[i], new_files[i].name, <<>>)]
        \o Group3(content, m)

\* re.sub(pattern, repl, content) for a pattern that names one object id.
Sub(content, m, repl) ==
    IF m.found
    THEN SubSeq(content, 1, m.start - 1) \o repl \o SubSeq(content, m.stop + 1, Len(content))
    ELSE content

UpdAddSources ==
    /\ upd.pc = "sources"
    /\ LET m == SearchNoParen(upd.content, "Sources72E5Files(")
       IN  upd' = [upd EXCEPT
               !.content = Sub(@, m, IF m.found THEN add_sources(upd.content, m, upd.build_files)
                                     ELSE <<>>),
               !.pc = "groups"]
    /\ UNCHANGED <<report, sync, addf, term, ana, cap, shot>>

\* add_groups: prefix + the two group references + existing + suffix
add_groups(content, m, services_group_id, views_group_id) ==
    Group1(content, m)
        \o <<Entry("child", services_group_id, "Services", <<>>),
             Entry("child", views_group_id, "Views", <<>>)>>
        \o Group2(content, m) \o Group3(content, m)

\* The definitions of the two groups, each with its files as children.
new_groups(file_refs, services_group_id, views_group_id) ==
    LET children(dir) ==
            SelectSeq([i \in DOMAIN new_files |->
                          Entry("child", file_refs[i], new_files[i].name, <<new_files[i].dir>>)],
                      LAMBDA e : e.ref = <<dir>>)
    IN  <<Entry("GroupChildren(", services_group_id, "Services", <<>>)>> \o children("Services")
            \o <<Tok(");")>>
            \o <<Entry("GroupChildren(", views_group_id, "Views", <<>>)>> \o children("Views")
            \o <<Tok(");")>>

\* The group ids, re.sub(group_pattern, add_groups, content), and the group
\* definitions before the end of the PBXGroup section.
UpdAddGroups ==
    /\ upd.pc = "groups"
    /\ LET sid == generate_uuid(2 * Len(new_files) + 1)
           vid == generate_uuid(2 * Len(new_files) + 2)
           m   == SearchNoParen(upd.content, "GroupAAA8Children(")
           c1  == Sub(upd.content, m,
                      IF m.found THEN add_groups(upd.content, m, sid, vid) ELSE <<>>)
       IN  upd' = [upd EXCEPT
               !.services_group_id = sid, !.views_group_id = vid,
               !.content = Replace(c1, <<Tok("EndPBXGroup")>>,
                                   new_groups(upd.file_refs, sid, vid) \o <<Tok("EndPBXGroup")>>),
               !.pc = "settings"]
    /\ UNCHANGED <<report, sync, addf, term, ana, cap, shot>>

\* The display name: re.sub of INFOPLIST_KEY_CFBundleDisplayName = "[^"]+";
SetDisplayName(content) ==
    [i \in DOMAIN content |->
        IF content[i].t = "INFOPLIST_KEY_CFBundleDisplayName = old;"
        THEN Tok("INFOPLIST_KEY_CFBundleDisplayName = ClearMind Control Center;")
        ELSE content[i]]

\* Deployment target, sandbox, product name, display name.
UpdSettings ==
    /\ upd.pc = "settings"
    /\ LET c1 == Replace(upd.content, <<Tok("MACOSX_DEPLOYMENT_TARGET = 13.0;")>>,
                         <<Tok("MACOSX_DEPLOYMENT_TARGET = 14.0;")>>)
           c2 == Replace(c1, <<Tok("ENABLE_APP_SANDBOX = YES;")>>, <<Tok("ENABLE_APP_SANDBOX = NO;")>>)
           c3 == Replace(c2, <<Tok("PRODUCT_NAME = Craig-O-Clean;")>>,
                         <<Tok("PRODUCT_NAME = ClearMind Control Center;")>>)
       IN  upd' = [upd EXCEPT !.content = SetDisplayName(c3), !.pc = "write"]
    /\ UNCHANGED <<report, sync, addf, term, ana, cap, shot>>

\* with open(project_path, 'w') as f: f.write(content)
UpdWrite ==
    /\ upd.pc = "write"
    /\ upd' = [upd EXCEPT !.file = upd.content, !.pc = "print"]
    /\ UNCHANGED <<report, sync, addf, term, ana, cap, shot>>

\* print("Xcode project updated successfully!"); print(f"Added {len(new_files)} ...")
UpdPrint ==
    /\ upd.pc = "print"
    /\ upd' = [upd EXCEPT
            !.printed = <<"Xcode project updated successfully!", Len(new_files)>>,
            !.pc = "done"]
    /\ UNCHANGED <<report, sync, addf, term, ana, cap, shot>>

UpdNext ==
    UpdRead \/ UpdAddFileRefs \/ UpdAddBuildFiles \/ UpdAddSources \/ UpdAddGroups
        \/ UpdSettings \/ UpdWrite \/ UpdPrint

InitUpdate == UpdInit /\ report = NotRunning /\ sync = NotRunning /\ addf = NotRunning /\ term = NotRunning
    /\ ana = NotRunning /\ cap = NotRunning /\ shot = NotRunning

SpecUpdate == InitUpdate /\ [][UpdNext]_vars

\* The i-th new file is in the written file: a PBXFileReference entry, a
\* PBXBuildFile entry for it, that build file in the Sources phase, and the file a
\* child of the group of its directory, which is a child of the Craig-O-Clean group.
UpdFileAdded(out, i) ==
    LET main == SearchNoParen(out, "GroupAAA8Children(")
    IN  \E r \in DOMAIN out :
          /\ out[r].t = "fileref" /\ out[r].name = new_files[i].name /\ IsNewId(out[r].id)
          /\ \E b \in DOMAIN out :
                /\ out[b].t = "build" /\ out[b].ref = out[r].id
                /\ \E k \in DOMAIN out : out[k].t = "src" /\ out[k].id = out[b].id
          /\ \E g \in DOMAIN out :
                /\ out[g].t = "GroupChildren(" /\ out[g].name = new_files[i].dir
                /\ \E k \in (g + 1)..Len(out) :
                      /\ out[k].t = "child" /\ out[k].id = out[r].id
                      /\ \A x \in g..k : out[x].t # ");"
                /\ main.found
                /\ \E k \in main.start..main.stop : out[k].t = "child" /\ out[k].id = out[g].id

\* C6: whenever the script prints that the project was updated successfully and
\* that 10 files were added, the written project file holds for each of the 10 new
\* files a PBXFileReference entry, a PBXBuildFile entry, an entry in the Sources
\* build phase and a membership in the Services or Views group that is itself a
\* child of the Craig-O-Clean group.
C6_SuccessMeansAdded ==
    (upd.pc = "done" /\ upd.printed = <<"Xcode project updated successfully!", 10>>) =>
        \A i \in DOMAIN new_files : UpdFileAdded(upd.file, i)

\* The run the script was written for: every marker and object id is in the file.
C6_AllAddedReached ==
    /\ upd.pc = "done"
    /\ \A i \in DOMAIN new_files : UpdFileAdded(upd.file, i)

(***************************************************************************)
(* sync-xcode-project.py                                                   *)
(***************************************************************************)

\* Bound: the seconds of the clock that names the backups (0..MaxClock).
MaxClock == 5

\* cleanup_old_backups keeps backups[:5]
KeepBackups == 5

\* Swift files that may be on disk, as path components below SOURCE_DIR.
SyncFiles == {<<"App.swift">>, <<".Hidden.swift">>, <<"Preview Content", "Preview.swift">>}

Last(path) == path[Len(path)]

\* os.path.join(SOURCE_DIR, os.path.basename(path))
FullPath(path) == <<Last(path)>>

\* glob "**/*.swift" does not match a name that starts with a dot.
GlobMatches(path) == \A i \in DOMAIN path : path[i] # ".Hidden.swift"

\* Of EXCLUDE_PATTERNS only "Preview Content/*" can match a .swift file.
should_exclude(path) == Len(path) >= 2 /\ path[Len(path) - 1] = "Preview Content"

get_disk_files(disk) == {f \in disk : GlobMatches(f) /\ ~should_exclude(f)}

\* The PBXFileReference paths whose basename exists directly in SOURCE_DIR.
get_project_files_all(project, disk) == {FullPath(p) : p \in project}

get_project_files(project, disk) == {FullPath(p) : p \in {q \in project : FullPath(q) \in disk}}

\* shutil.copy2(PROJECT_FILE, backup_file): a backup of that second is overwritten.
backup_project_once(backups, content, ts) ==
    IF \E b \in backups : b.ts = ts THEN backups ELSE backups \cup {[ts |-> ts, content |-> content]}

backup_project(backups, content, ts) ==
    {b \in backups : b.ts # ts} \cup {[ts |-> ts, content |-> content]}

\* sorted(glob(...), reverse=True)[5:] are removed: the KeepBackups latest stay.
cleanup_old_backups(backups) ==
    {b \in backups : Cardinality({c \in backups : c.ts > b.ts}) < KeepBackups}

SyncIdle(fs) ==
    [pc |-> "idle", fs |-> fs, pre |-> <<>>, project |-> {}, loaded |-> FALSE,
     files_to_add |-> {}, files_to_remove |-> {},
     added_count |-> 0, removed_count |-> 0, exit_code |-> -1, exit_at |-> "none"]

\* The file system: the project file (its Swift file references), the source
\* directory (its Swift files), the backups and the clock.
\* At first the project, as Xcode wrote it, references the files on disk.
SyncInit ==
    \E files \in SUBSET SyncFiles :
        sync = SyncIdle([project_exists |-> TRUE, project_file |-> files, src_exists |-> TRUE,
                         disk |-> files, backups |-> {}, clock |-> 0])

\* Between two runs: a Swift file is created or deleted, a second passes, the
\* project file or the source directory is deleted.
SyncCreateFile ==
    /\ sync.pc = "idle" /\ sync.fs.src_exists
    /\ \E f \in SyncFiles \ sync.fs.disk : sync' = [sync EXCEPT !.fs.disk = @ \cup {f}]
    /\ UNCHANGED <<report, addf, upd, term, ana, cap, shot>>

SyncDeleteFile ==
    /\ sync.pc = "idle"
    /\ \E f \in sync.fs.disk : sync' = [sync EXCEPT !.fs.disk = @ \ {f}]
    /\ UNCHANGED <<report, addf, upd, term, ana, cap, shot>>

SyncTick ==
    /\ sync.pc = "idle" /\ sync.fs.clock < MaxClock
    /\ sync' = [sync EXCEPT !.fs.clock = @ + 1]
    /\ UNCHANGED <<report, addf, upd, term, ana, cap, shot>>

SyncDeleteProjectFile ==
    /\ sync.pc = "idle" /\ sync.fs.project_exists
    /\ sync' = [sync EXCEPT !.fs.project_exists = FALSE, !.fs.project_file = {}]
    /\ UNCHANGED <<report, addf, upd, term, ana, cap, shot>>

SyncDeleteSourceDir ==
    /\ sync.pc = "idle" /\ sync.fs.src_exists
    /\ sync' = [sync EXCEPT !.fs.src_exists = FALSE, !.fs.disk = {}]
    /\ UNCHANGED <<report, addf, upd, term, ana, cap, shot>>

\* main: the two existence checks, each sys.exit(1).
SyncCheck ==
    /\ sync.pc = "idle"
    /\ sync' = [SyncIdle(sync.fs) EXCEPT
            !.pre = sync.fs,
            !.pc = IF sync.fs.project_exists /\ sync.fs.src_exists THEN "backup" ELSE "exited",
            !.exit_code = IF sync.fs.project_exists /\ sync.fs.src_exists THEN -1 ELSE 1,
            !.exit_at = IF ~sync.fs.project_exists THEN "no project file"
                        ELSE IF ~sync.fs.src_exists THEN "no source directory" ELSE "none"]
    /\ UNCHANGED <<report, addf, upd, term, ana, cap, shot>>

\* backup_project()
SyncBackup ==
    /\ sync.pc = "backup"
    /\ sync' = [sync EXCEPT
            !.fs.backups = IF sync.fs.project_exists
                           THEN backup_project(@, sync.fs.project_file, sync.fs.clock) ELSE @,
            !.pc = "load"]
    /\ UNCHANGED <<report, addf, upd, term, ana, cap, shot>>

\* XcodeProject.load(PROJECT_FILE), which may raise: sys.exit(1)
SyncLoad ==
    /\ sync.pc = "load"
    /\ \/ sync' = [sync EXCEPT !.project = sync.fs.project_file, !.loaded = TRUE, !.pc = "diff"]
       \/ sync' = [sync EXCEPT !.exit_code = 1, !.exit_at = "load failed", !.pc = "exited"]
    /\ UNCHANGED <<report, addf, upd, term, ana, cap, shot>>

\* disk_files, project_files and their two differences
SyncDiff ==
    /\ sync.pc = "diff"
    /\ LET disk_files    == get_disk_files(sync.fs.disk)
           project_files == get_project_files(sync.project, sync.fs.disk)
       IN  sync' = [sync EXCEPT
               !.files_to_add = disk_files \ project_files,
               !.files_to_remove = project_files \ disk_files,
               !.pc = "add"]
    /\ UNCHANGED <<report, addf, upd, term, ana, cap, shot>>

\* add_file_to_project for each file to add; the library call may raise (False).
SyncAddFiles ==
    /\ sync.pc = "add"
    /\ \E added \in SUBSET sync.files_to_add :
          sync' = [sync EXCEPT !.project = @ \cup added, !.added_count = Cardinality(added),
                               !.pc = "remove"]
    /\ UNCHANGED <<report, addf, upd, term, ana, cap, shot>>

\* remove_file_from_project for each file to remove; the library call may raise.
SyncRemoveFiles ==
    /\ sync.pc = "remove"
    /\ \E removed \in SUBSET sync.files_to_remove :
          sync' = [sync EXCEPT
              !.project = {p \in @ : FullPath(p) \notin removed},
              !.removed_count = Cardinality(removed),
              !.pc = "save"]
    /\ UNCHANGED <<report, addf, upd, term, ana, cap, shot>>

\* project.save() and cleanup_old_backups(), only if something was added or removed
SyncSave ==
    /\ sync.pc = "save"
    /\ IF sync.added_count > 0 \/ sync.removed_count > 0
       THEN sync' = [sync EXCEPT !.fs.project_file = sync.project,
                                 !.fs.backups = cleanup_old_backups(@),
                                 !.exit_code = 0, !.exit_at = "saved", !.pc = "exited"]
       ELSE sync' = [sync EXCEPT !.exit_code = 0, !.exit_at = "in sync", !.pc = "exited"]
    /\ UNCHANGED <<report, addf, upd, term, ana, cap, shot>>

\* The process has ended; the next run starts from the file system it left.
SyncEnd ==
    /\ sync.pc = "exited"
    /\ sync' = SyncIdle(sync.fs)
    /\ UNCHANGED <<report, addf, upd, term, ana, cap, shot>>

SyncNext ==
    \/ SyncCreateFile \/ SyncDeleteFile \/ SyncTick \/ SyncDeleteProjectFile \/ SyncDeleteSourceDir
    \/ SyncCheck \/ SyncBackup \/ SyncLoad \/ SyncDiff \/ SyncAddFiles \/ SyncRemoveFiles
    \/ SyncSave \/ SyncEnd

InitSync == SyncInit /\ report = NotRunning /\ addf = NotRunning /\ upd = NotRunning /\ term = NotRunning
    /\ ana = NotRunning /\ cap = NotRunning /\ shot = NotRunning

SpecSync == InitSync /\ [][SyncNext]_vars

\* C3: only the last 5 backups are kept: after any sequence of completed runs of
\* main (each run creates one timestamped backup) at most 5 files matching
\* project.pbxproj.backup-* exist, and they are the 5 most recent ones.
C3_AtMostFiveBackups ==
    (sync.pc = "exited" /\ sync.exit_at \in {"saved", "in sync"}) =>
        Cardinality(sync.fs.backups) <= KeepBackups

\* C7: a Swift file that is referenced in the Xcode project but no longer exists
\* on disk is placed in files_to_remove, and is removed from the project by the
\* run of main (unless the library call fails).
C7_DeletedFilesRemoved ==
    /\ sync.pc = "add" =>
          \A p \in sync.project : p \notin sync.fs.disk => FullPath(p) \in sync.files_to_remove
    /\ (sync.pc = "exited" /\ sync.exit_at = "in sync") =>
          \A p \in sync.fs.project_file : p \in sync.fs.disk

\* The backup of this run: named by the second of the run, a copy of the project
\* file as it was when the run started.
SyncRunBackup ==
    \E b \in sync.fs.backups : b.ts = sync.fs.clock /\ b.content = sync.pre.project_file

\* C8: every run of main that passes the project-file and source-directory checks
\* creates a backup identical to the pre-run project.pbxproj before the project is
\* loaded, modified or saved; a run that exits with status 1 because the project
\* file or the source directory is missing creates no backup and changes nothing.
C8_BackupBeforeLoad ==
    /\ sync.pc = "backup" => (sync.fs = sync.pre /\ ~sync.loaded)
    /\ sync.pc \in {"load", "diff", "add", "remove", "save"} => SyncRunBackup
    /\ (sync.pc = "exited" /\ sync.exit_at \in {"load failed", "saved", "in sync"}) => SyncRunBackup
    /\ (sync.pc # "idle" /\ (sync.loaded \/ sync.fs.project_file # sync.pre.project_file)) =>
          SyncRunBackup
    /\ (sync.pc = "exited" /\ sync.exit_at \in {"no project file", "no source directory"}) =>
          (sync.exit_code = 1 /\ sync.fs = sync.pre)

\* A run that saved a changed project, in a second that already had a backup of
\* other content.
C8_Witness ==
    /\ sync.pc = "exited"
    /\ sync.exit_at = "saved"
    /\ sync.fs.project_file # sync.pre.project_file
    /\ \E b \in sync.pre.backups : b.ts = sync.fs.clock /\ b.content # sync.pre.project_file
    /\ SyncRunBackup

(***************************************************************************)
(* TerminatorEdition/Scripts/sync_xcode_project.py                         *)
(*                                                                         *)
(* A path is the sequence of its components; the files on disk are paths   *)
(* relative to Xcode/CraigOTerminator.  A line of project.pbxproj is a     *)
(* record: its isa, the file name in its comment, the text after           *)
(* 'path = ' (<<>> when the line has none) and the file on disk the        *)
(* reference stands for once Xcode resolves it through its group.          *)
(***************************************************************************)

SwiftNames == {"App.swift", "Foo.swift", "Gen.swift"}

\* name.endswith('.swift'), and '.swift' in a line's text
EndsWithSwift(name) == name \in SwiftNames

\* The files that may exist under Xcode/CraigOTerminator, in the order of
\* sorted() on their path strings.
TermFileOrder ==
    << <<"App.swift">>, <<"Info.plist">>, <<"Models", "Foo.swift">>,
       <<"Views", "Foo.swift">>, <<"build", "Gen.swift">> >>

TermFiles == {TermFileOrder[i] : i \in DOMAIN TermFileOrder}

\* project_root: the parent of the directory of the script, wherever the
\* repository has been checked out.
ProjectRoots == {<<"work", "TerminatorEdition">>, <<"work", "build", "TerminatorEdition">>}

exclude_dirs == {".build", "build", "DerivedData", ".git", "Pods", "Carthage"}

Parts(path) == {path[i] : i \in DOMAIN path}

\* rglob("*.swift") under the scan directory, skipping every file one of whose
\* path components (of the whole path) is an excluded name; a scan directory that
\* does not exist is a disk with no files.
find_swift_files(project_root, disk) ==
    LET scan_dir == project_root \o <<"Xcode", "CraigOTerminator">>
    IN  {f \in disk : /\ EndsWithSwift(Last(f))
                      /\ ~\E excluded \in exclude_dirs : excluded \in Parts(scan_dir \o f)}

FileRefLine(path, target) ==
    [isa |-> "PBXFileReference", name |-> Last(path), path |-> path, target |-> target]

BuildFileLine(target) ==
    [isa |-> "PBXBuildFile", name |-> Last(target), path |-> <<>>, target |-> target]

PbxLines ==
    { FileRefLine(<<"Foo.swift">>, <<"Views", "Foo.swift">>),
      FileRefLine(<<"Models", "Foo.swift">>, <<"Models", "Foo.swift">>),
      FileRefLine(<<"App.swift">>, <<"App.swift">>),
      FileRefLine(<<"Info.plist">>, <<"Info.plist">>),
      BuildFileLine(<<"App.swift">>) }

\* The path texts of the lines that contain '.swift' and 'path = ' and whose
\* path ends with '.swift'.
find_files_in_pbxproj(lines) ==
    {l.path : l \in {m \in lines : /\ EndsWithSwift(m.name)
                                   /\ m.path # <<>>
                                   /\ EndsWithSwift(Last(m.path))}}

\* The loop of main over sorted(all_swift_files).
missing_files(all_swift_files, files_in_project) ==
    LET names == {Last(p) : p \in files_in_project}
        Missing(swift_file) == /\ swift_file \in all_swift_files
                               /\ swift_file \notin files_in_project
                               /\ Last(swift_file) \notin names
    IN  SelectSeq(TermFileOrder, Missing)

\* What input() can return, as sequences of characters; EndOfInput is a closed
\* standard input, on which input() raises EOFError.
Answers == {<<"y">>, <<"Y">>, <<" ", "y", " ">>, <<"y", "e", "s">>, <<"n">>, <<>>}

EndOfInput == <<"<EOF>">>

NoAnswer == <<"<none>">>

Whitespace == {" "}

RECURSIVE lstrip(_)
lstrip(s) == IF s # <<>> /\ Head(s) \in Whitespace THEN lstrip(Tail(s)) ELSE s

RECURSIVE rstrip(_)
rstrip(s) == IF s # <<>> /\ s[Len(s)] \in Whitespace THEN rstrip(SubSeq(s, 1, Len(s) - 1)) ELSE s

strip(s) == rstrip(lstrip(s))

\* A confirmation test that accepts everything starting with y.
IsYesPrefix(response) == response # <<>> /\ Head(response) = "y"

\* response == 'y'
IsYes(response) == response = <<"y">>

TermStart(root, pbx, disk, lines, gem) ==
    [pc |-> "start", project_root |-> root, pbxproj_exists |-> pbx, disk |-> disk,
     lines |-> lines, pre_lines |-> lines, gem_installed |-> gem,
     all_swift_files |-> {}, files_in_project |-> {}, missing_files |-> <<>>,
     computed |-> FALSE, answer |-> NoAnswer, install_answer |-> NoAnswer,
     installs |-> 0, gem_ok |-> FALSE, attempts |-> <<>>, outcomes |-> <<>>,
     added_count |-> 0, failed_count |-> 0,
     exit_how |-> "none", exit_code |-> -1]

TermInit ==
    \E root \in ProjectRoots : \E pbx \in BOOLEAN : \E disk \in SUBSET TermFiles :
    \E lines \in SUBSET PbxLines : \E gem \in BOOLEAN :
        term = TermStart(root, pbx, disk, IF pbx THEN lines ELSE {}, gem)

TermExit(how, code) == [term EXCEPT !.pc = "exited", !.exit_how = how, !.exit_code = code]

\* if not pbxproj_path.exists(): sys.exit(1)
TermCheckProject ==
    /\ term.pc = "start"
    /\ term' = IF term.pbxproj_exists THEN [term EXCEPT !.pc = "scan"] ELSE TermExit("sys.exit", 1)
    /\ UNCHANGED <<report, sync, addf, upd, ana, cap, shot>>

TermScan ==
    /\ term.pc = "scan"
    /\ term' = [term EXCEPT !.all_swift_files = find_swift_files(term.project_root, term.disk),
                            !.pc = "find"]
    /\ UNCHANGED <<report, sync, addf, upd, ana, cap, shot>>

TermFindInProject ==
    /\ term.pc = "find"
    /\ term' = [term EXCEPT !.files_in_project = find_files_in_pbxproj(term.lines),
                            !.pc = "missing"]
    /\ UNCHANGED <<report, sync, addf, upd, ana, cap, shot>>

\* missing_files; with none missing main returns 0
TermMissing ==
    /\ term.pc = "missing"
    /\ LET missing == missing_files(term.all_swift_files, term.files_in_project)
       IN  term' = IF missing = <<>>
                   THEN [TermExit("return", 0) EXCEPT !.computed = TRUE]
                   ELSE [term EXCEPT !.missing_files = missing, !.computed = TRUE,
                                     !.pc = "prompt"]
    /\ UNCHANGED <<report, sync, addf, upd, ana, cap, shot>>

\* response = input(...).strip().lower(); if response != 'y': return 0
TermPrompt ==
    /\ term.pc = "prompt"
    /\ \E a \in Answers \cup {EndOfInput} :
          term' = IF a = EndOfInput
                  THEN [TermExit("EOFError", 1) EXCEPT !.answer = a]
                  ELSE IF ~IsYes(lower(strip(a)))
                  THEN [TermExit("return", 0) EXCEPT !.answer = a]
                  ELSE [term EXCEPT !.answer = a, !.pc = "gem"]
    /\ UNCHANGED <<report, sync, addf, upd, ana, cap, shot>>

\* check_ruby_gem_installed(): False on a timeout or without the gem command
TermGemCheck ==
    /\ term.pc = "gem"
    /\ \E found \in {term.gem_installed, FALSE} :
          term' = [term EXCEPT !.gem_ok = found,
                               !.pc = IF found THEN "add" ELSE "install_prompt"]
    /\ UNCHANGED <<report, sync, addf, upd, ana, cap, shot>>

\* install_response = input(...).strip().lower(); anything but 'y': return 1
TermInstallPrompt ==
    /\ term.pc = "install_prompt"
    /\ \E a \in Answers \cup {EndOfInput} :
          term' = IF a = EndOfInput
                  THEN [TermExit("EOFError", 1) EXCEPT !.install_answer = a]
                  ELSE IF IsYes(lower(strip(a)))
                  THEN [term EXCEPT !.install_answer = a, !.pc = "install"]
                  ELSE [TermExit("return", 1) EXCEPT !.install_answer = a]
    /\ UNCHANGED <<report, sync, addf, upd, ana, cap, shot>>

\* install_xcodeproj_gem(): sudo gem install, which succeeds, fails or times out
\* (return 1), or cannot be started (FileNotFoundError is not caught).
TermInstall ==
    /\ term.pc = "install"
    /\ \/ term' = [term EXCEPT !.installs = @ + 1, !.gem_installed = TRUE, !.gem_ok = TRUE,
                               !.pc = "add"]
       \/ term' = [TermExit("return", 1) EXCEPT !.installs = @ + 1]
       \/ term' = [TermExit("FileNotFoundError", 1) EXCEPT !.installs = @ + 1]
    /\ UNCHANGED <<report, sync, addf, upd, ana, cap, shot>>

\* What subprocess.run(['ruby', '-e', script], timeout=10) can do: the script
\* ends with status 0 or with another status, the 10 seconds pass
\* (TimeoutExpired), or there is no ruby to run (FileNotFoundError).
RubyOutcomes == {"ok", "nonzero", "timeout", "no ruby"}

\* A call that takes a timeout for a success.
add_file_ignoring_timeout(outcome) == outcome \in {"ok", "timeout"}

\* add_file_to_xcode_project: result.returncode == 0, False on the two exceptions
add_file_to_xcode_project(outcome) == outcome = "ok"

\* One iteration of the loop over missing_files: add_file_to_xcode_project runs
\* the ruby script, which on status 0 has saved the project with a new reference.
TermAddFile ==
    /\ term.pc = "add"
    /\ Len(term.attempts) < Len(term.missing_files)
    /\ LET file_path == term.missing_files[Len(term.attempts) + 1]
       IN  \E outcome \in RubyOutcomes :
           \E path \in IF outcome = "ok" THEN {file_path, <<Last(file_path)>>} ELSE {<<>>} :
              term' = IF add_file_to_xcode_project(outcome)
                      THEN [term EXCEPT !.attempts = Append(@, file_path),
                                        !.outcomes = Append(@, outcome),
                                        !.lines = IF outcome = "ok"
                                                  THEN @ \cup {FileRefLine(path, file_path)}
                                                  ELSE @,
                                        !.added_count = @ + 1]
                      ELSE [term EXCEPT !.attempts = Append(@, file_path),
                                        !.outcomes = Append(@, outcome),
                                        !.lines = IF outcome = "ok"
                                                  THEN @ \cup {FileRefLine(path, file_path)}
                                                  ELSE @,
                                        !.failed_count = @ + 1]
    /\ UNCHANGED <<report, sync, addf, upd, ana, cap, shot>>

\* return 1 if failed_count > 0, else 0
TermReturn ==
    /\ term.pc = "add"
    /\ Len(term.attempts) = Len(term.missing_files)
    /\ term' = TermExit("return", IF term.failed_count > 0 THEN 1 ELSE 0)
    /\ UNCHANGED <<report, sync, addf, upd, ana, cap, shot>>

TermNext ==
    \/ TermCheckProject \/ TermScan \/ TermFindInProject \/ TermMissing \/ TermPrompt
    \/ TermGemCheck \/ TermInstallPrompt \/ TermInstall \/ TermAddFile \/ TermReturn

InitTerm == TermInit /\ report = NotRunning /\ sync = NotRunning /\ addf = NotRunning /\ upd = NotRunning
    /\ ana = NotRunning /\ cap = NotRunning /\ shot = NotRunning

SpecTerm == InitTerm /\ [][TermNext]_vars

\* The answer to the add prompt was exactly 'y' after strip and lower-casing.
TermConfirmed ==
    term.answer \notin {NoAnswer, EndOfInput} /\ lower(strip(term.answer)) = <<"y">>

TermUnmodified ==
    term.attempts = <<>> /\ term.installs = 0 /\ term.lines = term.pre_lines

\* C9 (as stated): unless the user answers exactly 'y' (after strip and
\* lower-casing) to the add prompt, add_file_to_xcode_project is never called,
\* no gem is installed, and main returns 0.
C9_NoConfirmationReturnsZero ==
    ~TermConfirmed =>
        /\ TermUnmodified
        /\ term.pc = "exited" => (term.exit_how = "return" /\ term.exit_code = 0)

\* C9 (amended): unless the user answers exactly 'y' (after strip and
\* lower-casing) to the add prompt, add_file_to_xcode_project is never called and
\* no gem is installed; main then returns 0 when the project file exists and an
\* answer was read or nothing was missing, the process exits with status 1 before
\* any prompt when project.pbxproj does not exist, and EOFError leaves main when
\* the input ends at the prompt.
C9_NoChangeWithoutConfirmation ==
    ~TermConfirmed =>
        /\ TermUnmodified
        /\ term.pc = "exited" =>
              \/ /\ term.exit_how = "return" /\ term.exit_code = 0
                 /\ term.pbxproj_exists
                 /\ term.answer # EndOfInput
                 /\ (term.answer = NoAnswer <=> term.missing_files = <<>>)
              \/ /\ term.exit_how = "sys.exit" /\ term.exit_code = 1
                 /\ ~term.pbxproj_exists /\ term.answer = NoAnswer
              \/ /\ term.exit_how = "EOFError" /\ term.answer = EndOfInput

\* Files are missing, the user answers yes, which is not 'y': main has returned 0.
C9_Witness ==
    /\ term.pc = "exited"
    /\ term.missing_files # <<>>
    /\ term.answer = <<"y", "e", "s">>
    /\ term.exit_how = "return" /\ term.exit_code = 0
    /\ TermUnmodified

\* The project has a PBXFileReference that stands for the file.
TermReferenced(file) ==
    \E l \in term.pre_lines : l.isa = "PBXFileReference" /\ l.target = file

\* C10: every Swift file on disk under Xcode/CraigOTerminator, outside excluded
\* directories, that has no PBXFileReference for it in project.pbxproj is listed
\* in missing_files, and no file the project already references is listed.
C10_MissingFilesExact ==
    term.computed =>
        /\ \A f \in term.disk :
              (/\ EndsWithSwift(Last(f))
               /\ Parts(f) \cap exclude_dirs = {}
               /\ ~TermReferenced(f))
              => \E i \in DOMAIN term.missing_files : term.missing_files[i] = f
        /\ \A i \in DOMAIN term.missing_files : ~TermReferenced(term.missing_files[i])

\* C11: once the user has confirmed and the xcodeproj gem is available, main
\* attempts each missing file exactly once, in order; a ruby run that times out
\* or cannot be started is a failure like a non-zero status;
\* added_count + failed_count is the number of files attempted, which at the
\* return is the number of missing files; and main returns 1 if and only if
\* failed_count > 0 (0 otherwise).
C11_EachMissingFileOnce ==
    term.gem_ok =>
        /\ TermConfirmed
        /\ term.attempts = SubSeq(term.missing_files, 1, Len(term.attempts))
        /\ Len(term.outcomes) = Len(term.attempts)
        /\ term.added_count + term.failed_count = Len(term.attempts)
        /\ term.failed_count = Cardinality({i \in DOMAIN term.outcomes : term.outcomes[i] # "ok"})
        /\ term.pc \in {"add", "exited"}
        /\ term.pc = "exited" =>
              /\ term.exit_how = "return"
              /\ term.attempts = term.missing_files
              /\ term.added_count + term.failed_count = Len(term.missing_files)
              /\ term.exit_code \in {0, 1}
              /\ (term.exit_code = 1 <=> term.failed_count > 0)

\* main has returned 1 after three missing files: one added, one ruby run timed
\* out, and for one there was no ruby.
C11_Witness ==
    /\ term.gem_ok
    /\ term.pc = "exited"
    /\ Len(term.missing_files) = 3
    /\ term.added_count = 1 /\ term.failed_count = 2
    /\ \E i, j \in DOMAIN term.outcomes : term.outcomes[i] = "timeout" /\ term.outcomes[j] = "no ruby"
    /\ term.exit_code = 1

(***************************************************************************)
(* scripts/analyze_test_results.py                                         *)
(*                                                                         *)
(* A Python dict is a function from its keys; dict.get is Get.  The        *)
(* content of a file is what reading it gives: its parsed value, or        *)
(* Unparsable when open() or json.load() raises.  Durations are in         *)
(* milliseconds.                                                           *)
(***************************************************************************)

\* Bound: the entries of 'logs' in an app log file.
MaxLogs == 2

\* Bound: the matches of failure_pattern in a test log.
MaxFailures == 21

\* Bound: the calls of categorize_issues on one analyzer object.
MaxCalls == 2

\* failures[:20]
FailureLimit == 20

\* critical_issues[:10], high_issues[:10]
PromptLimit == 10

EmptyDict == [k \in {} |-> <<>>]

\* A file on which open(), read() or json.load() raises.
Unparsable == [raises |-> "exception"]

Raises(value) == "raises" \in DOMAIN value

\* dict.get(key) with None, an absent key and JSON null all being "None"
Get(dict, key) == IF key \in DOMAIN dict THEN dict[key] ELSE "None"

\* dict.get(key, [])
GetList(dict, key) == IF key \in DOMAIN dict THEN dict[key] ELSE <<>>

Take(s, n) == SubSeq(s, 1, IF Len(s) < n THEN Len(s) ELSE n)

\* str.upper() on the levels that are logged
Upper(level) ==
    CASE level = "error"    -> "ERROR"
      [] level = "critical" -> "CRITICAL"
      [] level = "Warning"  -> "WARNING"
      [] OTHER              -> level

\* A stackTrace in a log entry, as its JSON text: absent or null ("None"), a
\* string, or a number.
StackTraces == {"None", "'at main.swift:1'", "5"}

\* What x[:500] accepts: a string, not a number.
Sliceable(value) == value \in {"'at main.swift:1'"}

LogEntries ==
    { [level |-> "error",    category |-> "Net", message |-> "request failed", stackTrace |-> "None"],
      [level |-> "critical", category |-> "Core", message |-> "crash", stackTrace |-> "'at main.swift:1'"],
      [level |-> "critical", category |-> "Core", message |-> "abort", stackTrace |-> "5"],
      [level |-> "Warning",  category |-> "UI", message |-> "slow frame", stackTrace |-> "None"],
      [level |-> "INFO",     category |-> "UI", message |-> "opened", stackTrace |-> "None"] }

\* 'performanceMetrics': none, or one operation of 0.5 s, 1 s or 2 s.
MetricLists ==
    {<<>>} \cup {<<[operation |-> "scan", duration |-> d]>> : d \in {500, 1000, 2000}}

RECURSIVE SelectErrors(_)
SelectErrors(logs) ==
    IF logs = <<>> THEN <<>>
    ELSE LET log == Head(logs)
         IN  (IF Upper(log.level) \in {"ERROR", "CRITICAL"}
              THEN <<[level |-> Upper(log.level), category |-> log.category,
                      message |-> log.message, stackTrace |-> log.stackTrace]>>
              ELSE <<>>) \o SelectErrors(Tail(logs))

RECURSIVE SelectCritical(_)
SelectCritical(logs) ==
    IF logs = <<>> THEN <<>>
    ELSE (IF Upper(Head(logs).level) = "CRITICAL" THEN <<Head(logs)>> ELSE <<>>)
         \o SelectCritical(Tail(logs))

RECURSIVE SelectWarnings(_)
SelectWarnings(logs) ==
    IF logs = <<>> THEN <<>>
    ELSE (IF Upper(Head(logs).level) = "WARNING"
          THEN <<[category |-> Head(logs).category, message |-> Head(logs).message]>>
          ELSE <<>>) \o SelectWarnings(Tail(logs))

RECURSIVE SelectSlow(_)
SelectSlow(metrics) ==
    IF metrics = <<>> THEN <<>>
    ELSE (IF Head(metrics).duration > 1000 THEN <<Head(metrics)>> ELSE <<>>)
         \o SelectSlow(Tail(metrics))

\* analyze_app_logs: the analysis, or {'error': ...} when anything raises.  (Of
\* the analysis only the lists that categorize_issues reads are kept, and the
\* number of logs.)
analyze_app_logs(data) ==
    IF Raises(data) THEN [error |-> "exception"]
    ELSE [total_logs |-> Len(data.logs),
          errors |-> SelectErrors(data.logs),
          warnings |-> SelectWarnings(data.logs),
          critical_errors |-> SelectCritical(data.logs),
          slow_operations |-> SelectSlow(data.performanceMetrics)]

\* analyze_test_results: counts that stay 0 and an empty 'failures'
analyze_test_results(data) ==
    IF Raises(data) THEN [error |-> "exception"]
    ELSE [total_tests |-> 0, passed |-> 0, failed |-> 0, skipped |-> 0, failures |-> <<>>]

\* The i-th match of a pattern in the content of a test log
Match(kind, i) == <<kind, i>>

\* analyze_test_log: a test log is the numbers of matches of the three patterns
analyze_test_log(content) ==
    IF Raises(content) THEN [error |-> "exception"]
    ELSE [test_failures |-> Take([i \in 1..content.failures |-> Match("failure", i)], FailureLimit),
          build_errors |-> Take([i \in 1..content.errors |-> Match("error", i)], FailureLimit),
          test_count |-> content.tests]

\* TestResultAnalyzer.__init__
NewAnalyzer ==
    [issues |-> <<>>, errors |-> <<>>, warnings |-> <<>>, performance_issues |-> <<>>,
     ui_issues |-> <<>>]

\* The five loops of categorize_issues over the lists it has read.
AppendIssues(self, critical, errors, failures, slow, warnings) ==
    [self EXCEPT
      !.issues = @
          \o [i \in 1..Len(critical) |->
                [type |-> "critical_error", severity |-> "critical",
                 category |-> Get(critical[i], "category"),
                 message |-> Get(critical[i], "message"), source |-> "app_logs",
                 stackTrace |-> Get(critical[i], "stackTrace")]]
          \o [i \in 1..Len(errors) |->
                [type |-> "error", severity |-> "high",
                 category |-> Get(errors[i], "category"),
                 message |-> Get(errors[i], "message"), source |-> "app_logs"]]
          \o [i \in 1..Len(failures) |->
                [type |-> "test_failure", severity |-> "high", message |-> failures[i],
                 source |-> "test_execution"]]
          \o [i \in 1..Len(slow) |->
                [type |-> "performance", severity |-> "medium",
                 operation |-> Get(slow[i], "operation"),
                 duration |-> Get(slow[i], "duration"), source |-> "app_logs"]]
          \o [i \in 1..Len(warnings) |->
                [type |-> "warning", severity |-> "low",
                 category |-> Get(warnings[i], "category"),
                 message |-> Get(warnings[i], "message"), source |-> "app_logs"]],
      !.errors = @ \o critical \o errors
                   \o [i \in 1..Len(failures) |-> [message |-> failures[i], source |-> "test"]],
      !.performance_issues = @ \o slow,
      !.warnings = @ \o warnings]

\* A categorize_issues that makes the issues of the warnings without keeping the
\* warnings.
categorize_issues_dropping_warnings(self, app_analysis, test_analysis, log_analysis) ==
    [AppendIssues(self, GetList(app_analysis, "critical_errors"),
                  GetList(app_analysis, "errors"), GetList(test_analysis, "test_failures"),
                  GetList(app_analysis, "slow_operations"), GetList(app_analysis, "warnings"))
       EXCEPT !.warnings = self.warnings]

\* categorize_issues: four lists are read from app_analysis and the test
\* failures from test_analysis; log_analysis is not read.
categorize_issues(self, app_analysis, test_analysis, log_analysis) ==
    AppendIssues(self, GetList(app_analysis, "critical_errors"),
                 GetList(app_analysis, "errors"), GetList(test_analysis, "test_failures"),
                 GetList(app_analysis, "slow_operations"), GetList(app_analysis, "warnings"))

\* len([i for i in issues if i.get('severity') == severity])
SeverityCount(issues, severity) ==
    Cardinality({i \in DOMAIN issues : issues[i].severity = severity})

\* generate_issue_report: the report that is written
generate_issue_report(self) ==
    [summary |-> [total_issues |-> Len(self.issues), errors |-> Len(self.errors),
                  warnings |-> Len(self.warnings),
                  performance_issues |-> Len(self.performance_issues),
                  ui_issues |-> Len(self.ui_issues)],
     issues |-> self.issues, errors |-> self.errors, warnings |-> self.warnings,
     performance_issues |-> self.performance_issues, ui_issues |-> self.ui_issues]

\* The issues of one severity, in order.
RECURSIVE OfSeverity(_, _)
OfSeverity(issues, severity) ==
    IF issues = <<>> THEN <<>>
    ELSE (IF Head(issues).severity = severity THEN <<Head(issues)>> ELSE <<>>)
         \o OfSeverity(Tail(issues), severity)

\* generate_orchestrator_prompt: the counts and the listed issues of the prompt,
\* or a TypeError when a listed critical issue has a stackTrace that is true but
\* cannot be sliced.
generate_orchestrator_prompt(self) ==
    LET critical_issues == OfSeverity(self.issues, "critical")
        high_issues     == OfSeverity(self.issues, "high")
        listed          == Take(critical_issues, PromptLimit)
    IN  IF \E i \in DOMAIN listed :
              Get(listed[i], "stackTrace") # "None" /\ ~Sliceable(Get(listed[i], "stackTrace"))
        THEN [raises |-> "TypeError"]
        ELSE [total |-> Len(self.issues),
              critical |-> Len(critical_issues), high |-> Len(high_issues),
              medium |-> SeverityCount(self.issues, "medium"),
              low |-> SeverityCount(self.issues, "low"),
              critical_listed |-> listed, high_listed |-> Take(high_issues, PromptLimit),
              performance_listed |-> Take(self.performance_issues, 5)]

AppContents(logs, metrics) == [logs |-> logs, performanceMetrics |-> metrics]

\* The numbers of failure matches: none, one, and around the limit.
FailureCounts == {0, 1} \cup (FailureLimit..MaxFailures)

TestLogContents(failures, errors) == [failures |-> failures, errors |-> errors, tests |-> failures]

\* An older test log in the logs directory.
OldTestLog == [ctime |-> 1, content |-> TestLogContents(1, 0)]

\* max(files, key=os.path.getctime)
Latest(files) == CHOOSE f \in files : \A g \in files : g.ctime <= f.ctime

AnaStart(argv, test_results, app_logs, test_logs) ==
    [pc |-> "start", argv |-> argv,
     dir |-> [test_results |-> test_results, app_logs |-> app_logs, test_logs |-> test_logs,
              issue_reports |-> <<>>, orchestrator_prompts |-> <<>>],
     test_results |-> {}, app_logs |-> {}, test_logs |-> {},
     app_analysis |-> EmptyDict, test_analysis |-> EmptyDict, log_analysis |-> EmptyDict,
     analyzer |-> NewAnalyzer, calls |-> 0, printed |-> EmptyDict,
     exit_how |-> "none", exit_code |-> -1]

AnaInit ==
    \/ ana = AnaStart(<<>>, {}, {}, {})
    \/ \E results \in {{}} \cup {{[ctime |-> 2, content |-> c]} : c \in {Unparsable, [actions |-> "none"]}} :
       \E olds \in {{}, {OldTestLog}} :
       \E tl \in {"none", "unreadable", "log"} : \E failures \in FailureCounts : \E errors \in 0..1 :
       \E al \in {"none", "unparsable", "logs"} :
       \E k \in 0..MaxLogs : \E logs \in [1..k -> LogEntries] : \E metrics \in MetricLists :
          /\ tl # "log" => (failures = 0 /\ errors = 0)
          /\ tl = "none" => olds = {}
          /\ al # "logs" => (k = 0 /\ metrics = <<>>)
          /\ ana = AnaStart(<<"reports">>, results,
                    IF al = "none" THEN {}
                    ELSE {[ctime |-> 2,
                           content |-> IF al = "unparsable" THEN Unparsable
                                       ELSE AppContents(logs, metrics)]},
                    IF tl = "none" THEN {}
                    ELSE olds \cup {[ctime |-> 2,
                                     content |-> IF tl = "unreadable" THEN Unparsable
                                                 ELSE TestLogContents(failures, errors)]})

AnaExit(how, code) == [ana EXCEPT !.pc = "exited", !.exit_how = how, !.exit_code = code]

\* if len(sys.argv) < 2: sys.exit(1)
AnaArgs ==
    /\ ana.pc = "start"
    /\ ana' = IF ana.argv = <<>> THEN AnaExit("usage", 1) ELSE [ana EXCEPT !.pc = "glob"]
    /\ UNCHANGED <<report, sync, addf, upd, term, cap, shot>>

\* The three globs; without test results and app logs: sys.exit(1)
AnaGlob ==
    /\ ana.pc = "glob"
    /\ ana' = IF ana.dir.test_results = {} /\ ana.dir.app_logs = {}
              THEN [AnaExit("nothing found", 1) EXCEPT !.test_logs = ana.dir.test_logs]
              ELSE [ana EXCEPT !.test_results = ana.dir.test_results,
                               !.app_logs = ana.dir.app_logs,
                               !.test_logs = ana.dir.test_logs, !.pc = "app_logs"]
    /\ UNCHANGED <<report, sync, addf, upd, term, cap, shot>>

AnaAppLogs ==
    /\ ana.pc = "app_logs"
    /\ ana' = [ana EXCEPT
          !.app_analysis = IF ana.app_logs # {}
                           THEN analyze_app_logs(Latest(ana.app_logs).content) ELSE @,
          !.pc = "test_results"]
    /\ UNCHANGED <<report, sync, addf, upd, term, cap, shot>>

AnaTestResults ==
    /\ ana.pc = "test_results"
    /\ ana' = [ana EXCEPT
          !.test_analysis = IF ana.test_results # {}
                            THEN analyze_test_results(Latest(ana.test_results).content) ELSE @,
          !.pc = "test_log"]
    /\ UNCHANGED <<report, sync, addf, upd, term, cap, shot>>

AnaTestLog ==
    /\ ana.pc = "test_log"
    /\ ana' = [ana EXCEPT
          !.log_analysis = IF ana.test_logs # {}
                           THEN analyze_test_log(Latest(ana.test_logs).content) ELSE @,
          !.pc = "categorize"]
    /\ UNCHANGED <<report, sync, addf, upd, term, cap, shot>>

\* analyzer.categorize_issues(app_analysis, test_analysis, log_analysis)
AnaCategorize ==
    /\ ana.pc = "categorize"
    /\ ana' = [ana EXCEPT
          !.analyzer = categorize_issues(@, ana.app_analysis, ana.test_analysis, ana.log_analysis),
          !.calls = @ + 1,
          !.pc = "issue_report"]
    /\ UNCHANGED <<report, sync, addf, upd, term, cap, shot>>

\* analyzer.generate_issue_report(issue_report_file)
AnaIssueReport ==
    /\ ana.pc = "issue_report"
    /\ ana' = [ana EXCEPT
          !.dir.issue_reports = Append(@, generate_issue_report(ana.analyzer)),
          !.pc = "prompt"]
    /\ UNCHANGED <<report, sync, addf, upd, term, cap, shot>>

\* analyzer.generate_orchestrator_prompt(orchestrator_prompt_file): the prompt is
\* written after its text is complete; an exception leaves main.
AnaPrompt ==
    /\ ana.pc = "prompt"
    /\ LET prompt == generate_orchestrator_prompt(ana.analyzer)
       IN  ana' = IF Raises(prompt) THEN AnaExit("TypeError", 1)
                  ELSE [ana EXCEPT !.dir.orchestrator_prompts = Append(@, prompt),
                                   !.pc = "print"]
    /\ UNCHANGED <<report, sync, addf, upd, term, cap, shot>>

\* The counts that main prints
PrintedCounts(self) ==
    [total |-> Len(self.issues),
     critical |-> SeverityCount(self.issues, "critical"),
     high |-> SeverityCount(self.issues, "high"),
     medium |-> SeverityCount(self.issues, "medium"),
     low |-> SeverityCount(self.issues, "low")]

\* The prints of main; main returns None and the status is 0.
AnaPrint ==
    /\ ana.pc = "print"
    /\ ana' = [AnaExit("return", 0) EXCEPT !.printed = PrintedCounts(ana.analyzer)]
    /\ UNCHANGED <<report, sync, addf, upd, term, cap, shot>>

AnaNext ==
    \/ AnaArgs \/ AnaGlob \/ AnaAppLogs \/ AnaTestResults \/ AnaTestLog \/ AnaCategorize
    \/ AnaIssueReport \/ AnaPrompt \/ AnaPrint

InitAnalyze == AnaInit /\ report = NotRunning /\ sync = NotRunning /\ addf = NotRunning
    /\ upd = NotRunning /\ term = NotRunning /\ cap = NotRunning /\ shot = NotRunning

SpecAnalyze == InitAnalyze /\ [][AnaNext]_vars

\* The failures that analyze_test_log extracts from the latest test log.
ExtractedFailures ==
    GetList(ana.log_analysis, "test_failures")

\* C12: every test failure that analyze_test_log extracts from the latest test
\* log (up to the limit of 20) appears in the issue report as one issue of type
\* 'test_failure' with severity 'high' and source 'test_execution'.
C12_FailuresReported ==
    (ana.pc \in {"prompt", "print", "exited"} /\ Len(ana.dir.issue_reports) = 1) =>
        LET issues == ana.dir.issue_reports[1].issues
        IN  \A k \in DOMAIN ExtractedFailures :
               Cardinality({i \in DOMAIN issues :
                               /\ issues[i].type = "test_failure"
                               /\ issues[i].message = ExtractedFailures[k]}) = 1
               /\ \A i \in DOMAIN issues :
                     (issues[i].type = "test_failure" /\ issues[i].message = ExtractedFailures[k])
                     => (issues[i].severity = "high" /\ issues[i].source = "test_execution")

\* The entries of the selected app log whose level is ERROR or CRITICAL.
ErrorEntries ==
    LET logs == Latest(ana.app_logs).content.logs
    IN  {k \in DOMAIN logs : Upper(logs[k].level) \in {"ERROR", "CRITICAL"}}

\* C23: categorize_issues adds exactly one issue (and exactly one entry in
\* self.errors) per app-log entry whose level is ERROR or CRITICAL, so
\* total_issues and the error count are not inflated by a log entry being counted
\* more than once.
C23_OneIssuePerErrorEntry ==
    (/\ ana.pc \in {"issue_report", "prompt", "print", "exited"}
     /\ ana.calls = 1
     /\ ana.app_logs # {}
     /\ ~Raises(Latest(ana.app_logs).content)) =>
        /\ Cardinality({i \in DOMAIN ana.analyzer.issues :
                           ana.analyzer.issues[i].type \in {"critical_error", "error"}})
               = Cardinality(ErrorEntries)
        /\ Cardinality({i \in DOMAIN ana.analyzer.errors :
                           "source" \notin DOMAIN ana.analyzer.errors[i]})
               = Cardinality(ErrorEntries)

\* C14: main exits with status 1 and writes no report when it has no directory
\* argument or the directory has neither test_results_*.json nor
\* logs/app_logs_*.json; in every other case it writes exactly one issue report
\* and one orchestrator prompt and does not abort, also when a selected file
\* cannot be read or parsed.
C14_ReportsWritten ==
    ana.pc = "exited" =>
        IF ana.argv = <<>> \/ (ana.dir.test_results = {} /\ ana.dir.app_logs = {})
        THEN /\ ana.exit_code = 1
             /\ ana.dir.issue_reports = <<>> /\ ana.dir.orchestrator_prompts = <<>>
        ELSE /\ ana.exit_how = "return"
             /\ Len(ana.dir.issue_reports) = 1 /\ Len(ana.dir.orchestrator_prompts) = 1

(***************************************************************************)
(* A TestResultAnalyzer object on which categorize_issues is called any    *)
(* number of times (up to MaxCalls), each time with analyses of other      *)
(* files, and whose report and counts are produced after any of the calls. *)
(***************************************************************************)

AnalyzerInit ==
    ana = [pc |-> "object", analyzer |-> NewAnalyzer, calls |-> 0,
           issue_report |-> EmptyDict, printed |-> EmptyDict]

\* An app analysis as analyze_app_logs returns it, or the {} of main.
AppAnalyses ==
    {EmptyDict, analyze_app_logs(Unparsable)}
    \cup {analyze_app_logs(AppContents(logs, metrics)) :
            logs \in {<<>>} \cup {<<e>> : e \in LogEntries}, metrics \in MetricLists}

\* A second argument: {}, what analyze_test_results returns, or an analysis that
\* has test failures.
TestAnalyses ==
    {EmptyDict, analyze_test_results([actions |-> "none"]),
     analyze_test_log(TestLogContents(2, 0))}

AnalyzerCategorize ==
    /\ ana.pc = "object"
    /\ ana.calls < MaxCalls
    /\ \E app_analysis \in AppAnalyses : \E test_analysis \in TestAnalyses :
          ana' = [ana EXCEPT
                    !.analyzer = categorize_issues(@, app_analysis, test_analysis, EmptyDict),
                    !.calls = @ + 1,
                    !.issue_report = EmptyDict, !.printed = EmptyDict]
    /\ UNCHANGED <<report, sync, addf, upd, term, cap, shot>>

\* generate_issue_report and the counts as main prints them
AnalyzerReport ==
    /\ ana.pc = "object"
    /\ ana.issue_report = EmptyDict
    /\ ana' = [ana EXCEPT !.issue_report = generate_issue_report(ana.analyzer),
                          !.printed = PrintedCounts(ana.analyzer)]
    /\ UNCHANGED <<report, sync, addf, upd, term, cap, shot>>

AnalyzerNext == AnalyzerCategorize \/ AnalyzerReport

InitAnalyzer == AnalyzerInit /\ report = NotRunning /\ sync = NotRunning /\ addf = NotRunning
    /\ upd = NotRunning /\ term = NotRunning /\ cap = NotRunning /\ shot = NotRunning

SpecAnalyzer == InitAnalyzer /\ [][AnalyzerNext]_vars

\* C13: after any number of categorize_issues calls the summary of the issue
\* report has total_issues = errors + warnings + performance_issues + ui_issues,
\* and the four severity counts that main prints (critical, high, medium, low)
\* sum to total_issues.
C13_SummaryAddsUp ==
    (ana.pc = "object" /\ ana.issue_report # EmptyDict) =>
        LET summary == ana.issue_report.summary
        IN  /\ summary.total_issues = summary.errors + summary.warnings
                                      + summary.performance_issues + summary.ui_issues
            /\ ana.printed.total = summary.total_issues
            /\ ana.printed.critical + ana.printed.high + ana.printed.medium + ana.printed.low
                  = summary.total_issues

\* A report after two calls, with issues of all four severities.
C13_Witness ==
    /\ ana.pc = "object"
    /\ ana.calls = 2
    /\ ana.issue_report # EmptyDict
    /\ ana.printed.critical > 0 /\ ana.printed.high > 0
    /\ ana.printed.medium > 0 /\ ana.printed.low > 0
    /\ ana.issue_report.summary.total_issues >= 4

(***************************************************************************)
(* Scripts/capture_screenshots.py                                          *)
(*                                                                         *)
(* mode is the appearance of macOS; osascript is run without a check of    *)
(* its status, so a call of set_appearance_mode either sets the mode or    *)
(* leaves it.                                                              *)
(***************************************************************************)

\* The files of the eight steps of run_capture_sequence, in order.
CaptureFiles ==
    << "01-menu-bar-icon.png", "02-popover-light-mode.png", "03-popover-dark-mode.png",
       "04-search-active.png", "05-alert-quit-confirmation.png",
       "06-alert-force-quit-warning.png", "07-process-list.png", "08-dashboard-view.png" >>

\* "Dark" if defaults read -g AppleInterfaceStyle has status 0, else "Light"
get_appearance_mode(mode) == IF mode = "Dark" THEN "Dark" ELSE "Light"

\* osascript sets dark mode to true for "Dark" and to false otherwise, when it
\* succeeds; its failure is not noticed.
set_appearance_mode(mode, target, osascript_ok) ==
    IF osascript_ok THEN (IF target = "Dark" THEN "Dark" ELSE "Light") ELSE mode

CapInit ==
    \E mode \in {"Light", "Dark"} : \E running \in BOOLEAN :
        cap = [pc |-> "check", mode |-> mode, app_running |-> running, opened |-> FALSE,
               current_mode |-> "unread", step |-> 0, captures |-> <<>>,
               osascript_failed |-> FALSE]

\* if not self.is_app_running(): open the app (which may not start)
CapCheckApp ==
    /\ cap.pc = "check"
    /\ IF cap.app_running
       THEN cap' = [cap EXCEPT !.pc = "mode"]
       ELSE \E started \in BOOLEAN :
               cap' = [cap EXCEPT !.opened = TRUE, !.app_running = started, !.pc = "mode"]
    /\ UNCHANGED <<report, sync, addf, upd, term, ana, shot>>

\* current_mode = self.get_appearance_mode()
CapGetMode ==
    /\ cap.pc = "mode"
    /\ cap' = [cap EXCEPT !.current_mode = get_appearance_mode(cap.mode), !.step = 1,
                          !.pc = "prompt"]
    /\ UNCHANGED <<report, sync, addf, upd, term, ana, shot>>

\* Before the prompt of step 2: Light if current_mode is Dark; before the prompt
\* of step 3: Dark.
CapSwitch ==
    /\ cap.pc = "switch"
    /\ IF cap.step = 2 /\ cap.current_mode # "Dark"
       THEN cap' = [cap EXCEPT !.pc = "prompt"]
       ELSE \E osascript_ok \in BOOLEAN :
               cap' = [cap EXCEPT
                   !.mode = set_appearance_mode(@, IF cap.step = 2 THEN "Light" ELSE "Dark",
                                                osascript_ok),
                   !.osascript_failed = @ \/ ~osascript_ok,
                   !.pc = "prompt"]
    /\ UNCHANGED <<report, sync, addf, upd, term, ana, shot>>

\* interactive_prompt: ENTER, or the input ends or is interrupted and the
\* exception is reported by __main__.
CapPrompt ==
    /\ cap.pc = "prompt"
    /\ \/ cap' = [cap EXCEPT !.pc = "capture"]
       \/ cap' = [cap EXCEPT !.pc = "cancelled"]
    /\ UNCHANGED <<report, sync, addf, upd, term, ana, shot>>

\* capture_screen(file, delay): the screen is captured in the mode it has
CapCapture ==
    /\ cap.pc = "capture"
    /\ cap' = [cap EXCEPT
          !.captures = Append(@, [file |-> CaptureFiles[cap.step], mode |-> cap.mode]),
          !.step = IF cap.step < Len(CaptureFiles) THEN @ + 1 ELSE @,
          !.pc = IF cap.step = Len(CaptureFiles) THEN "restore"
                 ELSE IF cap.step + 1 \in {2, 3} THEN "switch" ELSE "prompt"]
    /\ UNCHANGED <<report, sync, addf, upd, term, ana, shot>>

\* if current_mode != self.get_appearance_mode(): self.set_appearance_mode(current_mode)
CapRestore ==
    /\ cap.pc = "restore"
    /\ IF cap.current_mode # get_appearance_mode(cap.mode)
       THEN \E osascript_ok \in BOOLEAN :
               cap' = [cap EXCEPT
                   !.mode = set_appearance_mode(@, cap.current_mode, osascript_ok),
                   !.osascript_failed = @ \/ ~osascript_ok,
                   !.pc = "done"]
       ELSE cap' = [cap EXCEPT !.pc = "done"]
    /\ UNCHANGED <<report, sync, addf, upd, term, ana, shot>>

CapNext == CapCheckApp \/ CapGetMode \/ CapSwitch \/ CapPrompt \/ CapCapture \/ CapRestore

InitCapture == CapInit /\ report = NotRunning /\ sync = NotRunning /\ addf = NotRunning
    /\ upd = NotRunning /\ term = NotRunning /\ ana = NotRunning /\ shot = NotRunning

SpecCapture == InitCapture /\ [][CapNext]_vars

\* C15: when run_capture_sequence runs to its end, the appearance mode equals
\* the mode read at its start, for both starting modes, and
\* 02-popover-light-mode.png was captured while the mode was Light and
\* 03-popover-dark-mode.png while it was Dark.
C15_ModeRestored ==
    cap.pc = "done" =>
        /\ get_appearance_mode(cap.mode) = cap.current_mode
        /\ \A i \in DOMAIN cap.captures :
              /\ cap.captures[i].file = "02-popover-light-mode.png" => cap.captures[i].mode = "Light"
              /\ cap.captures[i].file = "03-popover-dark-mode.png" => cap.captures[i].mode = "Dark"

\* C24: if the capture sequence is ended early by the user (KeyboardInterrupt at
\* any prompt) or by an exception at any step, the macOS appearance mode is still
\* the mode that was in effect when the script started.
C24_ModeKeptWhenEndedEarly ==
    cap.pc = "cancelled" => cap.mode = cap.current_mode

(***************************************************************************)
(* Scripts/screenshot_helper.py                                            *)
(*                                                                         *)
(* The exit status of the process: 0 when main returns, 1 for sys.exit(1)  *)
(* and for an exception that leaves main, 2 for an error of argparse.      *)
(***************************************************************************)

\* Bound: the .png files in the source directory of a session given with -s.
MaxShots == 2

\* The commands of the usage text in the module docstring.
DocumentedCommands == {"capture", "resize", "frame", "optimize", "all"}

\* choices of the positional argument 'command'
ParserChoices == {"capture", "resize", "optimize", "metadata", "all", "interactive"}

\* What may be typed as the command; <<>> is no command at all.
TypedCommands == DocumentedCommands \cup ParserChoices \cup {"bogus"}

\* screenshots_to_capture of interactive_capture
screenshots_to_capture ==
    << "01_menubar", "02_dashboard", "03_processes", "04_memory", "05_browser",
       "06_settings", "07_paywall" >>

\* A session directory: whether it and its mac_2880x1800 directory exist, how
\* many .png files are there, and whether one of them cannot be opened as an image.
NoSession == [exists |-> FALSE, source_exists |-> FALSE, pngs |-> 0, corrupt |-> FALSE]

ShotStart(pillow, argv, session_arg, session) ==
    [pc |-> "import", pillow |-> pillow, argv |-> argv, session_arg |-> session_arg,
     session |-> session, dispatched |-> "none", called |-> <<>>, step |-> 0,
     exit_how |-> "none", exit_code |-> -1]

ShotInit ==
    \E pillow \in BOOLEAN : \E argv \in {<<>>} \cup {<<c>> : c \in TypedCommands} :
    \E session_arg \in BOOLEAN : \E exists \in BOOLEAN : \E source_exists \in BOOLEAN :
    \E pngs \in 0..MaxShots : \E corrupt \in BOOLEAN :
        /\ ~session_arg => ~exists
        /\ ~exists => ~source_exists
        /\ ~source_exists => pngs = 0
        /\ pngs = 0 => ~corrupt
        /\ shot = ShotStart(pillow, argv, session_arg,
                            [exists |-> exists, source_exists |-> source_exists,
                             pngs |-> pngs, corrupt |-> corrupt])

ShotExit(how, code) == [shot EXCEPT !.pc = "exited", !.exit_how = how, !.exit_code = code]

\* from PIL import ...; except ImportError: sys.exit(1)
ShotImport ==
    /\ shot.pc = "import"
    /\ shot' = IF shot.pillow THEN [shot EXCEPT !.pc = "parse"] ELSE ShotExit("no Pillow", 1)
    /\ UNCHANGED <<report, sync, addf, upd, term, ana, cap>>

\* parser.parse_args(): a missing command or one that is not among the choices
\* is an error, which ends the process with status 2.
ShotParse ==
    /\ shot.pc = "parse"
    /\ shot' = IF shot.argv # <<>> /\ shot.argv[1] \in ParserChoices
               THEN [shot EXCEPT !.pc = "dispatch"]
               ELSE ShotExit("argparse error", 2)
    /\ UNCHANGED <<report, sync, addf, upd, term, ana, cap>>

\* The branch of main that the command selects.
Handler(command) ==
    IF command \in {"interactive", "all"} THEN "interactive_capture"
    ELSE IF command = "capture" THEN "setup"
    ELSE IF command = "resize" THEN "resize_for_devices"
    ELSE IF command = "optimize" THEN "optimize_for_upload"
    ELSE IF command = "metadata" THEN "generate_metadata"
    ELSE "none"

\* if / elif on args.command; resize, optimize and metadata without -s only print
ShotDispatch ==
    /\ shot.pc = "dispatch"
    /\ LET handler == Handler(shot.argv[1])
       IN  shot' = IF handler \in {"resize_for_devices", "optimize_for_upload", "generate_metadata"}
                      /\ ~shot.session_arg
                   THEN [ShotExit("return", 0) EXCEPT !.dispatched = handler]
                   ELSE IF handler = "none" THEN ShotExit("return", 0)
                   ELSE [shot EXCEPT !.dispatched = handler, !.pc = handler]
    /\ UNCHANGED <<report, sync, addf, upd, term, ana, cap>>

\* capture: ScreenshotCapture(args.directory).setup(), where mkdir may raise
ShotSetup ==
    /\ shot.pc = "setup"
    /\ \/ shot' = [ShotExit("return", 0) EXCEPT !.called = Append(@, "setup")]
       \/ shot' = [ShotExit("OSError", 1) EXCEPT !.called = Append(@, "setup")]
    /\ UNCHANGED <<report, sync, addf, upd, term, ana, cap>>

\* resize_for_devices: returns when the source directory is missing; Image.open
\* raises on a file that is not an image.
ShotResize ==
    /\ shot.pc = "resize_for_devices"
    /\ shot' = IF shot.session.source_exists /\ shot.session.corrupt
               THEN [ShotExit("UnidentifiedImageError", 1) EXCEPT !.called = Append(@, "resize_for_devices")]
               ELSE [ShotExit("return", 0) EXCEPT !.called = Append(@, "resize_for_devices")]
    /\ UNCHANGED <<report, sync, addf, upd, term, ana, cap>>

\* optimize_for_upload: iterdir raises when the session directory is missing
ShotOptimize ==
    /\ shot.pc = "optimize_for_upload"
    /\ shot' = IF ~shot.session.exists
               THEN [ShotExit("FileNotFoundError", 1) EXCEPT !.called = Append(@, "optimize_for_upload")]
               ELSE IF shot.session.corrupt
               THEN [ShotExit("UnidentifiedImageError", 1) EXCEPT !.called = Append(@, "optimize_for_upload")]
               ELSE [ShotExit("return", 0) EXCEPT !.called = Append(@, "optimize_for_upload")]
    /\ UNCHANGED <<report, sync, addf, upd, term, ana, cap>>

\* generate_metadata: iterdir raises when the session directory is missing
ShotMetadata ==
    /\ shot.pc = "generate_metadata"
    /\ shot' = IF ~shot.session.exists
               THEN [ShotExit("FileNotFoundError", 1) EXCEPT !.called = Append(@, "generate_metadata")]
               ELSE [ShotExit("return", 0) EXCEPT !.called = Append(@, "generate_metadata")]
    /\ UNCHANGED <<report, sync, addf, upd, term, ana, cap>>

\* interactive_capture: ScreenshotCapture().setup() makes the directories of a
\* new session.
ShotInteractiveSetup ==
    /\ shot.pc = "interactive_capture"
    /\ \/ shot' = [shot EXCEPT !.called = Append(@, "setup"),
                               !.session = [exists |-> TRUE, source_exists |-> TRUE,
                                            pngs |-> 0, corrupt |-> FALSE],
                               !.step = 1, !.pc = "capture_loop"]
       \/ shot' = [ShotExit("OSError", 1) EXCEPT !.called = Append(@, "setup")]
    /\ UNCHANGED <<report, sync, addf, upd, term, ana, cap>>

\* One iteration of the loop: input(), which raises when the input ends, then
\* capture_window(name); screencapture -w writes the file unless the user cancels
\* it.
ShotCaptureWindow ==
    /\ shot.pc = "capture_loop"
    /\ shot.step <= Len(screenshots_to_capture)
    /\ \/ shot' = ShotExit("EOFError", 1)
       \/ \E written \in BOOLEAN :
             shot' = [shot EXCEPT !.called = Append(@, "capture_window"),
                                  !.session.pngs = IF written THEN @ + 1 ELSE @,
                                  !.step = @ + 1]
    /\ UNCHANGED <<report, sync, addf, upd, term, ana, cap>>

\* After the loop: resize_for_devices, optimize_for_upload, generate_metadata,
\* open; a file the capture wrote is an image.
ShotProcess ==
    /\ shot.pc = "capture_loop"
    /\ shot.step > Len(screenshots_to_capture)
    /\ shot' = [ShotExit("return", 0) EXCEPT
                  !.called = @ \o <<"resize_for_devices", "optimize_for_upload", "generate_metadata">>]
    /\ UNCHANGED <<report, sync, addf, upd, term, ana, cap>>

ShotNext ==
    \/ ShotImport \/ ShotParse \/ ShotDispatch \/ ShotSetup \/ ShotResize \/ ShotOptimize
    \/ ShotMetadata \/ ShotInteractiveSetup \/ ShotCaptureWindow \/ ShotProcess

InitHelper == ShotInit /\ report = NotRunning /\ sync = NotRunning /\ addf = NotRunning
    /\ upd = NotRunning /\ term = NotRunning /\ ana = NotRunning /\ cap = NotRunning

SpecHelper == InitHelper /\ [][ShotNext]_vars

\* C16: every command of the usage documentation (capture, resize, frame,
\* optimize, all) is accepted by the argument parser of main and dispatched to a
\* handler, and the exit status of the script is 0 or 1.
C16_DocumentedCommandsDispatched ==
    shot.pc = "exited" =>
        /\ shot.exit_code \in {0, 1}
        /\ (shot.pillow /\ shot.argv # <<>> /\ shot.argv[1] \in DocumentedCommands) =>
              (shot.exit_how # "argparse error" /\ shot.dispatched # "none")

(***************************************************************************)
(* Scripts/screenshot_helper.py: ScreenshotCapture.capture_window, called  *)
(* on one ScreenshotCapture object after setup (SpecCaptureWindow).        *)
(***************************************************************************)

\* Bound: calls of capture_window on the object.
MaxWindowCalls == 2

\* The names asked for: the first names of screenshots_to_capture.
WindowNames == {"01_menubar", "02_dashboard"}

\* window_title: None (the default), an empty title, a title.
WindowTitles == {"None", "", "Craig-O-Clean"}

\* What subprocess.run(["osascript", ...]) does: returns status 0 with the four
\* bounds on stdout, returns status 0 with other text, returns a non-zero status
\* (no such process, no permission), or raises (no osascript to run).
OsascriptResults == {"bounds", "other text", "nonzero", "raises"}

\* if window_title:
Truthy(window_title) == window_title \notin {"None", ""}

\* self.session_dir / "mac_2880x1800" / f"{name}.png"
OutputPath(name) == <<"mac_2880x1800", name, ".png">>

\* A run of screencapture.
Screencapture(flag, output_path) == [flag |-> flag, path |-> output_path]

\* Where capture_window goes after osascript: the bounds are captured, a
\* non-zero status skips the capture, an exception (raised by run, or by
\* unpacking a stdout that is not four fields) reaches the except clause.
AfterOsascript(result) ==
    CASE result = "bounds"  -> "region"
      [] result = "nonzero" -> "return"
      [] OTHER              -> "fallback"

WindowInit ==
    shot = [pc |-> "idle", name |-> "", window_title |-> "None", result |-> "none",
            issued |-> <<>>, returned |-> <<>>]

CaptureWindowCall ==
    /\ shot.pc = "idle"
    /\ Len(shot.returned) < MaxWindowCalls
    /\ \E name \in WindowNames, window_title \in WindowTitles :
        shot' = [shot EXCEPT
            !.name = name, !.window_title = window_title, !.result = "none",
            !.issued = <<>>,
            !.pc = IF Truthy(window_title) THEN "osascript" ELSE "interactive"]
    /\ UNCHANGED <<report, sync, addf, upd, term, ana, cap>>

CaptureWindowOsascript ==
    /\ shot.pc = "osascript"
    /\ \E result \in OsascriptResults :
        shot' = [shot EXCEPT !.result = result, !.pc = AfterOsascript(result)]
    /\ UNCHANGED <<report, sync, addf, upd, term, ana, cap>>

\* screencapture -R x,y,w,h output_path
CaptureWindowRegion ==
    /\ shot.pc = "region"
    /\ shot' = [shot EXCEPT
            !.issued = Append(@, Screencapture("-R", OutputPath(shot.name))),
            !.pc = "return"]
    /\ UNCHANGED <<report, sync, addf, upd, term, ana, cap>>

\* except Exception: screencapture -w output_path
CaptureWindowFallback ==
    /\ shot.pc = "fallback"
    /\ shot' = [shot EXCEPT
            !.issued = Append(@, Screencapture("-w", OutputPath(shot.name))),
            !.pc = "return"]
    /\ UNCHANGED <<report, sync, addf, upd, term, ana, cap>>

\* else: screencapture -w output_path
CaptureWindowInteractive ==
    /\ shot.pc = "interactive"
    /\ shot' = [shot EXCEPT
            !.issued = Append(@, Screencapture("-w", OutputPath(shot.name))),
            !.pc = "return"]
    /\ UNCHANGED <<report, sync, addf, upd, term, ana, cap>>

\* return output_path
CaptureWindowReturn ==
    /\ shot.pc = "return"
    /\ shot' = [shot EXCEPT
            !.returned = Append(@, [name |-> shot.name, window_title |-> shot.window_title,
                                    result |-> shot.result, issued |-> shot.issued,
                                    output_path |-> OutputPath(shot.name)]),
            !.pc = "idle"]
    /\ UNCHANGED <<report, sync, addf, upd, term, ana, cap>>

WindowNext ==
    \/ CaptureWindowCall \/ CaptureWindowOsascript \/ CaptureWindowRegion
    \/ CaptureWindowFallback \/ CaptureWindowInteractive \/ CaptureWindowReturn

InitWindow == WindowInit /\ report = NotRunning /\ sync = NotRunning /\ addf = NotRunning
    /\ upd = NotRunning /\ term = NotRunning /\ ana = NotRunning /\ cap = NotRunning

SpecCaptureWindow == InitWindow /\ [][WindowNext]_vars

\* C22: capture_window always issues a capture for the requested name: when a
\* window_title is given and the window bounds cannot be obtained from osascript
\* (non-zero return code or an exception), it falls back to interactive capture
\* (screencapture -w) to the same output path.
C22_AlwaysCaptures ==
    \A i \in DOMAIN shot.returned :
        LET call == shot.returned[i]
        IN  /\ Len(call.issued) = 1
            /\ call.issued[1].path = OutputPath(call.name)
            /\ (Truthy(call.window_title) /\ call.result \in {"nonzero", "raises"}) =>
                   call.issued = <<Screencapture("-w", call.output_path)>>

====
